---- MODULE Spec2Model ----
(***************************************************************************)
(* Model of the OAuth token-exchange proxy: the wildcard pattern matcher   *)
(* with its process-wide cache (lib/validation.ts), the provider exchange  *)
(* (lib/oauth-common.ts, oauth-google.ts, oauth-microsoft.ts), the         *)
(* enrichment client (lib/user-info.ts) and the request handler            *)
(* (src/index.ts).                                                         *)
(*                                                                         *)
(* JavaScript strings are sequences of one-character strings, so that      *)
(* escaping, splitting, trimming and case folding are computed the way the *)
(* code computes them.                                                     *)
(***************************************************************************)
EXTENDS Integers, Sequences, FiniteSets, TLC

VARIABLES
    regexCache,   \* validation.ts: const regexCache = new Map<string, RegExp>()
    env,          \* the Worker's Env bindings
    pc,           \* where the request handler stands
    request,      \* the Request being handled
    config,       \* exchangeCode's OAuthProviderConfig, while it awaits
    tokenResp,    \* handleTokenExchange's tokenResp, once exchangeCode returned
    outbound,     \* the outbound fetch calls made for this request, in order
    inbound,      \* the replies those calls got, in order
    response,     \* the Response the client gets
    log,          \* what console.error wrote for this request
    fnPc,         \* position of the direct call of a validation.ts function
    fnName,       \* which function is called
    fnUri,        \* its first argument
    fnArg,        \* its second argument (a pattern, or a CSV allowlist)
    fnRet         \* its return value

fnVars == <<fnPc, fnName, fnUri, fnArg, fnRet>>

handlerVars ==
    <<env, pc, request, config, tokenResp, outbound, inbound, response, log>>

vars == <<regexCache, env, pc, request, config, tokenResp, outbound, inbound,
          response, log, fnPc, fnName, fnUri, fnArg, fnRet>>

-----------------------------------------------------------------------------
(* Bounds of the model *)

MaxUriLen == 3
MaxPatLen == 3
MaxCsvLen == 4
MaxUnsetCreds == 1
NumRequests == 2
MaxEntries == 3

-----------------------------------------------------------------------------
(* Strings *)

\* All strings over alphabet A of length at most n.
StringsUpTo(A, n) == UNION {[1..k -> A] : k \in 0..n}

Drop(s, k) == SubSeq(s, k + 1, Len(s))

\* F applied to the value of x, with x evaluated once: `const v = x; F(v)`.
Bind(x, F(_)) == CHOOSE r \in {F(v) : v \in {x}} : TRUE

\* ECMAScript LineTerminator code points: the characters `.` does not match
\* in a RegExp built without the s (dotAll) flag.
LineTerminators == {"\n", "\r"}

\* ECMAScript WhiteSpace and LineTerminator: what String.prototype.trim strips.
WhiteSpace == {" ", "\t", "\n", "\r"}

-----------------------------------------------------------------------------
(* validation.ts: matchesPattern *)

\* The character class /[.*+?^${}()|[\]\\]/ of line 87.
RegexSpecial == {".", "*", "+", "?", "^", "$", "{", "}", "(", ")", "|", "[", "]", "\\"}

\* pattern.replace(/[.*+?^${}()|[\]\\]/g, '\\$&'): a backslash before every
\* special character.
RECURSIVE escapeSpecial(_)
escapeSpecial(pattern) ==
    IF pattern = <<>> THEN <<>>
    ELSE (IF Head(pattern) \in RegexSpecial
             THEN <<"\\", Head(pattern)>>
             ELSE <<Head(pattern)>>) \o escapeSpecial(Tail(pattern))

\* escaped.replace(/\\\*/g, '.*'): every backslash directly followed by a
\* star, scanning left to right without overlap, becomes dot star.
RECURSIVE replaceEscapedStar(_)
replaceEscapedStar(escaped) ==
    IF escaped = <<>> THEN <<>>
    ELSE IF Len(escaped) >= 2 /\ escaped[1] = "\\" /\ escaped[2] = "*"
         THEN <<".", "*">> \o replaceEscapedStar(Drop(escaped, 2))
         ELSE <<Head(escaped)>> \o replaceEscapedStar(Tail(escaped))

\* Lines 87-88: the source text of the regular expression.
regexSource(pattern) ==
    <<"^">> \o replaceEscapedStar(escapeSpecial(pattern)) \o <<"$">>

(* new RegExp(source), for the fragment of the regular-expression grammar  *)
(* made of literals, identity escapes, `.`, the `*` quantifier and the     *)
(* `^`/`$` assertions.  Anything else is reported as a SyntaxError: the    *)
(* escaping of line 87 never produces it.                                  *)

\* Length of the atom that starts at src[i] (0: no atom starts there).
AtomLen(src, i) ==
    IF i > Len(src) THEN 0
    ELSE IF src[i] = "\\" THEN (IF i + 1 <= Len(src) THEN 2 ELSE 0)
    ELSE IF src[i] \in (RegexSpecial \ {"."}) THEN 0
    ELSE 1

RECURSIVE RegExpWellFormed(_, _)
RegExpWellFormed(src, i) ==
    IF i > Len(src) THEN TRUE
    ELSE IF src[i] \in {"^", "$"} THEN RegExpWellFormed(src, i + 1)
    ELSE LET n == AtomLen(src, i)
         IN  /\ n > 0
             /\ IF i + n <= Len(src) /\ src[i + n] = "*"
                   THEN RegExpWellFormed(src, i + n + 1)
                   ELSE RegExpWellFormed(src, i + n)

\* The compiled program: a sequence of assertions and (possibly starred) atoms.
RECURSIVE RegExpProgram(_, _)
RegExpProgram(src, i) ==
    IF i > Len(src) THEN <<>>
    ELSE IF src[i] = "^" THEN <<[k |-> "bol"]>> \o RegExpProgram(src, i + 1)
    ELSE IF src[i] = "$" THEN <<[k |-> "eol"]>> \o RegExpProgram(src, i + 1)
    ELSE LET n    == AtomLen(src, i)
             atom == IF src[i] = "\\" THEN [k |-> "lit", c |-> src[i + 1]]
                     ELSE IF src[i] = "." THEN [k |-> "dot", c |-> "."]
                     ELSE [k |-> "lit", c |-> src[i]]
             star == i + n <= Len(src) /\ src[i + n] = "*"
         IN  <<[k |-> atom.k, c |-> atom.c, star |-> star]>>
                 \o RegExpProgram(src, i + n + (IF star THEN 1 ELSE 0))

\* new RegExp(src): the compiled program, or a thrown SyntaxError.
NewRegExp(src) ==
    IF RegExpWellFormed(src, 1)
    THEN [threw |-> FALSE, prog |-> RegExpProgram(src, 1)]
    ELSE [threw |-> TRUE, prog |-> <<>>]

\* One atom against one character; `.` has no dotAll flag.
AtomMatches(atom, ch) ==
    IF atom.k = "dot" THEN ch \notin LineTerminators ELSE ch = atom.c

\* Backtracking match of prog[i..] against s from position pos (1-based).
\* No multiline flag: ^ holds only at the start, $ only at the end.
RECURSIVE MatchFrom(_, _, _, _)
MatchFrom(prog, i, s, pos) ==
    IF i > Len(prog) THEN TRUE
    ELSE IF prog[i].k = "bol" THEN pos = 1 /\ MatchFrom(prog, i + 1, s, pos)
    ELSE IF prog[i].k = "eol" THEN pos = Len(s) + 1 /\ MatchFrom(prog, i + 1, s, pos)
    ELSE IF prog[i].star
         THEN \/ MatchFrom(prog, i + 1, s, pos)
              \/ /\ pos <= Len(s)
                 /\ AtomMatches(prog[i], s[pos])
                 /\ MatchFrom(prog, i, s, pos + 1)
         ELSE /\ pos <= Len(s)
              /\ AtomMatches(prog[i], s[pos])
              /\ MatchFrom(prog, i + 1, s, pos + 1)

\* regex.test(uri): a search, the match may start anywhere.
RegExpTest(prog, s) == \E start \in 1..(Len(s) + 1) : MatchFrom(prog, 1, s, start)

\* A cache of one slot: setting a key drops every other entry.
MapSetEvicting(map, key, val) == [x \in {key} |-> val]

\* Map.prototype.set
MapSet(map, key, val) ==
    [x \in (DOMAIN map) \cup {key} |-> IF x = key THEN val ELSE map[x]]

EmptyMap == <<>>

\* A cache that is not keyed by the pattern: any compiled regex it holds is
\* used for the pattern asked.
matchesPatternAnyCached(uri, pattern, cache) ==
    IF DOMAIN cache # {}
    THEN [ret |-> RegExpTest(cache[CHOOSE p \in DOMAIN cache : TRUE], uri),
          cache |-> cache]
    ELSE LET regex == NewRegExp(regexSource(pattern))
         IN  [ret |-> RegExpTest(regex.prog, uri),
              cache |-> [x \in {pattern} |-> regex.prog]]

\* matchesPattern(uri, pattern) run against cache: its return value and the
\* cache it leaves.
matchesPattern(uri, pattern, cache) ==
    IF pattern \in DOMAIN cache
    THEN [ret |-> RegExpTest(cache[pattern], uri), cache |-> cache]
    ELSE LET regex == NewRegExp(regexSource(pattern))
         IN  IF regex.threw
             THEN [ret |-> FALSE, cache |-> cache]
             ELSE [ret |-> RegExpTest(regex.prog, uri),
                   cache |-> MapSet(cache, pattern, regex.prog)]

-----------------------------------------------------------------------------
(* validation.ts: validateRedirectUri *)

\* Index of the first comma of s, 0 when it has none.
RECURSIVE firstComma(_, _)
firstComma(s, i) ==
    IF i > Len(s) THEN 0
    ELSE IF s[i] = "," THEN i
    ELSE firstComma(s, i + 1)

\* allowedUris.split(',')
RECURSIVE splitComma(_)
splitComma(s) ==
    LET i == firstComma(s, 1)
    IN  IF i = 0 THEN <<s>>
        ELSE <<SubSeq(s, 1, i - 1)>> \o splitComma(Drop(s, i))

RECURSIVE trimStart(_)
trimStart(s) ==
    IF s # <<>> /\ Head(s) \in WhiteSpace THEN trimStart(Tail(s)) ELSE s

RECURSIVE trimEnd(_)
trimEnd(s) ==
    IF s # <<>> /\ s[Len(s)] \in WhiteSpace
    THEN trimEnd(SubSeq(s, 1, Len(s) - 1))
    ELSE s

\* uri.trim()
trim(s) == trimEnd(trimStart(s))

\* allowedUris.split(','), the entries left untrimmed.
splitPatternsUntrimmed(allowedUris) ==
    splitComma(allowedUris)

\* allowedUris.split(',').map((uri) => uri.trim())
splitPatterns(allowedUris) ==
    LET parts == splitComma(allowedUris)
    IN  [i \in 1..Len(parts) |-> trim(parts[i])]

\* The loop of lines 19-23: returns at the first pattern that matches, so
\* the patterns after it are not compiled.
RECURSIVE matchFirst(_, _, _)
matchFirst(redirectUri, patterns, cache) ==
    IF patterns = <<>> THEN [ret |-> FALSE, cache |-> cache]
    ELSE Bind(matchesPattern(redirectUri, Head(patterns), cache),
              LAMBDA m :
                  IF m.ret THEN [ret |-> TRUE, cache |-> m.cache]
                  ELSE matchFirst(redirectUri, Tail(patterns), m.cache))

validateRedirectUri(redirectUri, allowedUris, cache) ==
    IF redirectUri = <<>> THEN [ret |-> FALSE, cache |-> cache]
    ELSE matchFirst(redirectUri, splitPatterns(allowedUris), cache)

-----------------------------------------------------------------------------
(* validation.ts: extractOrigin and isAllowedOrigin *)

UpperCase == <<"A", "B", "C", "D", "E", "F", "G", "H", "I", "J", "K", "L", "M",
               "N", "O", "P", "Q", "R", "S", "T", "U", "V", "W", "X", "Y", "Z">>
LowerCase == <<"a", "b", "c", "d", "e", "f", "g", "h", "i", "j", "k", "l", "m",
               "n", "o", "p", "q", "r", "s", "t", "u", "v", "w", "x", "y", "z">>
Digits == <<"0", "1", "2", "3", "4", "5", "6", "7", "8", "9">>

Range(f) == {f[x] : x \in DOMAIN f}

toLowerChar(c) ==
    IF c \in Range(UpperCase)
    THEN LowerCase[CHOOSE i \in DOMAIN UpperCase : UpperCase[i] = c]
    ELSE c

\* String.prototype.toLowerCase
toLowerCase(s) == [i \in 1..Len(s) |-> toLowerChar(s[i])]

StartsWith(s, prefix) ==
    Len(s) >= Len(prefix) /\ SubSeq(s, 1, Len(prefix)) = prefix

\* s.replace(/from/g, to) for a literal, non-empty from.
RECURSIVE replaceAll(_, _, _)
replaceAll(s, from, to) ==
    IF s = <<>> THEN <<>>
    ELSE IF StartsWith(s, from) THEN to \o replaceAll(Drop(s, Len(from)), from, to)
    ELSE <<Head(s)>> \o replaceAll(Tail(s), from, to)

\* Index of the first character of s that is in set C, from i on; 0 if none.
RECURSIVE firstOf(_, _, _)
firstOf(s, C, i) ==
    IF i > Len(s) THEN 0
    ELSE IF s[i] \in C THEN i
    ELSE firstOf(s, C, i + 1)

\* Index of the last character of s that is in set C; 0 if none.
RECURSIVE lastOf(_, _, _)
lastOf(s, C, i) ==
    IF i < 1 THEN 0
    ELSE IF s[i] \in C THEN i
    ELSE lastOf(s, C, i - 1)

RECURSIVE digitsToNat(_)
digitsToNat(d) ==
    IF d = <<>> THEN 0
    ELSE 10 * digitsToNat(SubSeq(d, 1, Len(d) - 1))
         + ((CHOOSE i \in DOMAIN Digits : Digits[i] = d[Len(d)]) - 1)

RECURSIVE natToDigits(_)
natToDigits(n) ==
    IF n < 10 THEN <<Digits[n + 1]>>
    ELSE natToDigits(n \div 10) \o <<Digits[(n % 10) + 1]>>

SpecialSchemes == {<<"h", "t", "t", "p">>, <<"h", "t", "t", "p", "s">>, <<"w", "s">>, <<"w", "s", "s">>, <<"f", "t", "p">>}

DefaultPort(scheme) ==
    IF scheme \in {<<"h", "t", "t", "p">>, <<"w", "s">>} THEN 80
    ELSE IF scheme \in {<<"h", "t", "t", "p", "s">>, <<"w", "s", "s">>} THEN 443
    ELSE IF scheme = <<"f", "t", "p">> THEN 21
    ELSE 0 - 1

\* Code points the URL standard forbids in a host.
ForbiddenHost ==
    {" ", "#", "/", ":", "<", ">", "?", "@", "[", "\\", "]", "^", "|", "%",
     "\t", "\n", "\r"}

URLFailure == [ok |-> FALSE, protocol |-> <<>>, host |-> <<>>]

(* new URL(input) without a base, as far as extractOrigin reads it         *)
(* (protocol and host), following the URL standard for inputs of the form  *)
(* scheme ":" ["//"] [userinfo "@"] host [":" port] [path ...].  Not       *)
(* modelled: the file scheme, IPv6 and IPv4 literals, percent-encoding,    *)
(* non-ASCII hosts.                                                        *)

\* Host parsing and serialisation: url.host for authority auth.
urlHost(scheme, auth) ==
    LET special == scheme \in SpecialSchemes
        at      == lastOf(auth, {"@"}, Len(auth))
        portAt  == lastOf(auth, {":"}, Len(auth))
        hasPort == portAt > at
        rawHost == IF hasPort THEN SubSeq(auth, at + 1, portAt - 1) ELSE Drop(auth, at)
        portStr == IF hasPort THEN Drop(auth, portAt) ELSE <<>>
        portOk  == /\ \A k \in 1..Len(portStr) : portStr[k] \in Range(Digits)
                   /\ digitsToNat(portStr) <= 65535
        hostOk  == /\ \A k \in 1..Len(rawHost) : rawHost[k] \notin ForbiddenHost
                   /\ special => rawHost # <<>>
        \* a domain is lower-cased (domain to ASCII); an opaque host is kept
        host    == IF special THEN toLowerCase(rawHost) ELSE rawHost
    IN  IF ~(hostOk /\ portOk) THEN URLFailure
        ELSE [ok |-> TRUE, protocol |-> scheme \o <<":">>,
              host |-> IF portStr = <<>> \/ digitsToNat(portStr) = DefaultPort(scheme)
                       THEN host
                       ELSE host \o <<":">> \o natToDigits(digitsToNat(portStr))]

\* The authority of scheme ":" rest, and the URL it gives.
urlAuthority(scheme, rest) ==
    LET special == scheme \in SpecialSchemes
        slashes == IF special THEN {"/", "\\"} ELSE {"/"}
        \* a special scheme ignores how many slashes follow the colon
        nonSlash == firstOf(rest, {c \in Range(rest) : c \notin slashes}, 1)
        afterSl == IF special
                   THEN (IF nonSlash = 0 THEN <<>> ELSE Drop(rest, nonSlash - 1))
                   ELSE Drop(rest, 2)
        authEnd == firstOf(afterSl, slashes \cup {"?", "#"}, 1)
    IN  IF ~special /\ ~StartsWith(rest, <<"/", "/">>)
        THEN [ok |-> TRUE, protocol |-> scheme \o <<":">>, host |-> <<>>]
        ELSE Bind(IF authEnd = 0 THEN afterSl ELSE SubSeq(afterSl, 1, authEnd - 1),
                  LAMBDA auth : urlHost(scheme, auth))

\* The scheme of s (s already stripped), and the URL it gives.
urlScheme(s) ==
    LET colon == firstOf(s, {":"}, 1)
        schemeOk ==
            /\ colon > 1
            /\ s[1] \in Range(UpperCase) \cup Range(LowerCase)
            /\ \A k \in 2..(colon - 1) :
                  s[k] \in Range(UpperCase) \cup Range(LowerCase)
                           \cup Range(Digits) \cup {"+", "-", "."}
    IN  IF ~schemeOk THEN URLFailure
        ELSE Bind(toLowerCase(SubSeq(s, 1, colon - 1)),
                  LAMBDA scheme :
                      Bind(Drop(s, colon), LAMBDA rest : urlAuthority(scheme, rest)))

NewURL(input) ==
    \* tab and newline are removed from the input wherever they are, and
    \* leading and trailing spaces
    Bind(trim(SelectSeq(input, LAMBDA c : c \notin {"\t", "\n", "\r"})), urlScheme)

WILDCARD == <<"W", "I", "L", "D", "C", "A", "R", "D">>

\* extractOrigin(urlOrPattern): [null |-> TRUE] for the caught TypeError.
extractOrigin(urlOrPattern) ==
    LET testUrl == replaceAll(urlOrPattern, <<"*">>, WILDCARD)
        url     == NewURL(testUrl)
    IN  IF ~url.ok THEN [null |-> TRUE, origin |-> <<>>]
        ELSE [null |-> FALSE,
              origin |-> replaceAll(url.protocol \o <<"/", "/">> \o url.host,
                                    WILDCARD, <<"*">>)]

\* The loop of lines 43-49.
RECURSIVE originMatchFirst(_, _, _)
originMatchFirst(origin, patterns, cache) ==
    IF patterns = <<>> THEN [ret |-> FALSE, cache |-> cache]
    ELSE Bind(extractOrigin(Head(patterns)),
              LAMBDA patternOrigin :
                  IF patternOrigin.null \/ patternOrigin.origin = <<>>
                  THEN originMatchFirst(origin, Tail(patterns), cache)
                  ELSE Bind(matchesPattern(origin, patternOrigin.origin, cache),
                            LAMBDA m :
                                IF m.ret THEN [ret |-> TRUE, cache |-> m.cache]
                                ELSE originMatchFirst(origin, Tail(patterns), m.cache)))

isAllowedOrigin(origin, allowedUris, cache) ==
    IF origin = <<>> THEN [ret |-> FALSE, cache |-> cache]
    ELSE originMatchFirst(origin, splitPatterns(allowedUris), cache)

-----------------------------------------------------------------------------
(* JavaScript values, as far as the handler tells them apart *)

JUndef == [t |-> "undefined", v |-> <<>>]
JNull == [t |-> "null", v |-> <<>>]
JStr(s) == [t |-> "string", v |-> s]
JNum(digits) == [t |-> "number", v |-> digits]
JObj(label) == [t |-> "object", v |-> label]

\* ToBoolean: what `!x` and `if (x)` test.
Truthy(x) ==
    CASE x.t = "undefined" -> FALSE
      [] x.t = "null" -> FALSE
      [] x.t = "string" -> x.v # <<>>
      [] x.t = "number" -> x.v # <<"0">>
      [] OTHER -> TRUE

\* A message: a fixed text followed by interpolated parts.
Msg(text, parts) == [text |-> text, parts |-> parts]

\* String(x), as a template literal interpolates it.
Interpolate(x) ==
    IF x.t \in {"undefined", "null"} THEN <<x.t>> ELSE x.v

-----------------------------------------------------------------------------
(* src/index.ts: jsonResponse, errorResponse *)

NoToken == [access_token |-> JUndef, id_token |-> JUndef, user_info |-> JUndef]
NoMsg == Msg("", <<>>)
NoResponse == [status |-> 0, kind |-> "none", error |-> NoMsg, token |-> NoToken,
               allowOrigin |-> <<>>]

\* CORS headers that allow every origin.
corsHeadersWildcard(origin, allowedUris, cache) ==
    [allowOrigin |-> <<"*">>, cache |-> cache]

\* Lines 151-156: the Access-Control-Allow-Origin header (<<>>: not set) and
\* the cache isAllowedOrigin leaves.  origin is the Origin header (JNull when
\* the request has none).
corsHeaders(origin, allowedUris, cache) ==
    IF Truthy(origin) /\ allowedUris # <<>>
    THEN Bind(isAllowedOrigin(origin.v, allowedUris, cache),
              LAMBDA a : [allowOrigin |-> IF a.ret THEN origin.v ELSE <<>>,
                          cache |-> a.cache])
    ELSE [allowOrigin |-> <<>>, cache |-> cache]

\* jsonResponse(data, status, origin, allowedUris) for data = {error: message}
errorResponse(message, status, origin, allowedUris, cache) ==
    Bind(corsHeaders(origin, allowedUris, cache),
         LAMBDA h : [response |-> [status |-> status, kind |-> "error",
                                   error |-> message, token |-> NoToken,
                                   allowOrigin |-> h.allowOrigin],
                     cache |-> h.cache])

\* jsonResponse(tokenResp, 200, origin, allowedUris)
tokenResponse(resp, origin, allowedUris, cache) ==
    Bind(corsHeaders(origin, allowedUris, cache),
         LAMBDA h : [response |-> [status |-> 200, kind |-> "token", error |-> NoMsg,
                                   token |-> resp, allowOrigin |-> h.allowOrigin],
                     cache |-> h.cache])

-----------------------------------------------------------------------------
(* lib/oauth-google.ts, lib/oauth-microsoft.ts: the provider configurations *)

googleConfig ==
    [tokenEndpoint |-> "https://oauth2.googleapis.com/token",
     clientIdKey |-> "GOOGLE_OAUTH_CLIENT_ID",
     clientSecretKey |-> "GOOGLE_OAUTH_CLIENT_SECRET",
     providerName |-> "Google"]

microsoftConfig ==
    [tokenEndpoint |-> "https://login.microsoftonline.com/common/oauth2/v2.0/token",
     clientIdKey |-> "MICROSOFT_OAUTH_CLIENT_ID",
     clientSecretKey |-> "MICROSOFT_OAUTH_CLIENT_SECRET",
     providerName |-> "Microsoft"]

NoConfig ==
    [tokenEndpoint |-> "", clientIdKey |-> "", clientSecretKey |-> "",
     providerName |-> ""]

\* A switch whose default case falls through to Google.
providerConfigDefaultsToGoogle(provider) ==
    IF provider = <<"o", "u", "t", "l", "o", "o", "k">> \/ provider = <<"m", "i", "c", "r", "o", "s", "o", "f", "t">>
    THEN microsoftConfig
    ELSE googleConfig

\* A switch without the 'outlook' case.
providerConfigWithoutOutlook(provider) ==
    IF provider = <<"g", "o", "o", "g", "l", "e">> THEN googleConfig
    ELSE IF provider = <<"m", "i", "c", "r", "o", "s", "o", "f", "t">> THEN microsoftConfig
    ELSE NoConfig

\* The switch of index.ts lines 101-111 on the lower-cased provider: the
\* configuration exchangeCode is called with, NoConfig for the default case.
providerConfig(provider) ==
    IF provider = <<"g", "o", "o", "g", "l", "e">> THEN googleConfig
    ELSE IF provider = <<"o", "u", "t", "l", "o", "o", "k">> \/ provider = <<"m", "i", "c", "r", "o", "s", "o", "f", "t">>
         THEN microsoftConfig
    ELSE NoConfig

-----------------------------------------------------------------------------
(* lib/oauth-common.ts: exchangeCode *)

NoForm ==
    [client_id |-> JUndef, client_secret |-> JUndef, code |-> JUndef,
     redirect_uri |-> JUndef, grant_type |-> JUndef, code_verifier |-> JUndef]
NoHeaders == [x_auth_token |-> JUndef, x_referral_code |-> JUndef]

\* An exchangeCode that does not check the credentials before it calls.
exchangeCodeCallUnchecked(req, e, cfg) ==
    [threw |-> FALSE, error |-> NoMsg,
     calls |-> <<[to |-> "provider", url |-> <<cfg.tokenEndpoint>>, method |-> "POST",
                  form |-> [client_id |-> e[cfg.clientIdKey],
                            client_secret |-> e[cfg.clientSecretKey],
                            code |-> JStr(Interpolate(req.code)),
                            redirect_uri |-> JStr(Interpolate(req.redirect_uri)),
                            grant_type |-> JStr(<<"a", "u", "t", "h", "o", "r", "i", "z", "a", "t", "i", "o", "n", "_", "c", "o", "d", "e">>),
                            code_verifier |->
                                IF Truthy(req.code_verifier)
                                THEN JStr(Interpolate(req.code_verifier))
                                ELSE JUndef],
                  headers |-> NoHeaders]>>]

\* Lines 35-65, up to the await of fetch: either a thrown Error or the one
\* POST to the provider's token endpoint.
exchangeCodeCall(req, e, cfg) ==
    LET clientId     == e[cfg.clientIdKey]
        clientSecret == e[cfg.clientSecretKey]
    IN  IF ~Truthy(clientId)
        THEN [threw |-> TRUE, error |-> Msg(" is not configured", <<cfg.clientIdKey>>),
              calls |-> <<>>]
        ELSE IF ~Truthy(clientSecret)
        THEN [threw |-> TRUE, error |-> Msg(" is not configured", <<cfg.clientSecretKey>>),
              calls |-> <<>>]
        ELSE [threw |-> FALSE, error |-> NoMsg,
              calls |-> <<[to |-> "provider", url |-> <<cfg.tokenEndpoint>>, method |-> "POST",
                           form |-> [client_id |-> clientId,
                                     client_secret |-> clientSecret,
                                     code |-> JStr(Interpolate(req.code)),
                                     redirect_uri |-> JStr(Interpolate(req.redirect_uri)),
                                     grant_type |-> JStr(<<"a", "u", "t", "h", "o", "r", "i", "z", "a", "t", "i", "o", "n", "_", "c", "o", "d", "e">>),
                                     code_verifier |->
                                         IF Truthy(req.code_verifier)
                                         THEN JStr(Interpolate(req.code_verifier))
                                         ELSE JUndef],
                           headers |-> NoHeaders]>>]

\* response.ok
StatusOk(status) == 200 <= status /\ status <= 299

\* An exchangeCode that returns the parsed response without the id_token
\* check of lines 87-89.
exchangeCodeReturnWithoutIdTokenCheck(reply) ==
    IF reply.net = "error"
    THEN [threw |-> TRUE, error |-> Msg("fetch failed", <<>>), token |-> NoToken]
    ELSE IF ~StatusOk(reply.status)
    THEN IF reply.json \in {"malformed", "null"}
         THEN [threw |-> TRUE,
               error |-> Msg("Token exchange failed with status ",
                             <<ToString(reply.status), ": ">> \o reply.raw),
               token |-> NoToken]
         ELSE [threw |-> TRUE,
               error |-> Msg("Token exchange failed: ",
                             Interpolate(reply.error) \o <<" - ">>
                                 \o Interpolate(reply.error_description)),
               token |-> NoToken]
    ELSE IF reply.json = "malformed"
    THEN [threw |-> TRUE, error |-> Msg("SyntaxError: JSON.parse", <<>>), token |-> NoToken]
    ELSE IF reply.json = "null"
    THEN [threw |-> TRUE, error |-> Msg("TypeError: reading 'access_token' of null", <<>>),
          token |-> NoToken]
    ELSE IF ~Truthy(reply.access_token)
    THEN [threw |-> TRUE, error |-> Msg("access_token missing in token response", <<>>),
          token |-> NoToken]
    ELSE [threw |-> FALSE, error |-> NoMsg,
          token |-> [access_token |-> reply.access_token, id_token |-> reply.id_token,
                     user_info |-> reply.user_info]]

\* Lines 67-92, from the provider's reply on: the TokenExchangeResponse
\* returned, or the Error thrown.
exchangeCodeReturn(reply) ==
    IF reply.net = "error"
    THEN [threw |-> TRUE, error |-> Msg("fetch failed", <<>>), token |-> NoToken]
    ELSE IF ~StatusOk(reply.status)
    THEN \* JSON.parse(body) throws on text that is not JSON, and errResp.error
         \* throws on null: both leave the status message, with the raw body
         IF reply.json \in {"malformed", "null"}
         THEN [threw |-> TRUE,
               error |-> Msg("Token exchange failed with status ",
                             <<ToString(reply.status), ": ">> \o reply.raw),
               token |-> NoToken]
         ELSE [threw |-> TRUE,
               error |-> Msg("Token exchange failed: ",
                             Interpolate(reply.error) \o <<" - ">>
                                 \o Interpolate(reply.error_description)),
               token |-> NoToken]
    ELSE IF reply.json = "malformed"
    THEN [threw |-> TRUE, error |-> Msg("SyntaxError: JSON.parse", <<>>), token |-> NoToken]
    ELSE IF reply.json = "null"
    THEN [threw |-> TRUE, error |-> Msg("TypeError: reading 'access_token' of null", <<>>),
          token |-> NoToken]
    ELSE IF ~Truthy(reply.access_token)
    THEN [threw |-> TRUE, error |-> Msg("access_token missing in token response", <<>>),
          token |-> NoToken]
    ELSE IF ~Truthy(reply.id_token)
    THEN [threw |-> TRUE, error |-> Msg("id_token missing in token response", <<>>),
          token |-> NoToken]
    ELSE [threw |-> FALSE, error |-> NoMsg,
          token |-> [access_token |-> reply.access_token, id_token |-> reply.id_token,
                     user_info |-> reply.user_info]]

-----------------------------------------------------------------------------
(* lib/user-info.ts: fetchUserInfo *)

\* Lines 88-101: the one GET to the backend.
fetchUserInfoCall(idToken, e, referralCode) ==
    [to |-> "backend", url |-> <<e.USER_INFO_SERVICE_URL, "/user/info">>, method |-> "GET",
     form |-> NoForm,
     headers |-> [x_auth_token |-> JStr(Interpolate(idToken)),
                  x_referral_code |-> IF Truthy(referralCode) THEN referralCode ELSE JUndef]]

\* Lines 103-114, from the backend's reply on.
fetchUserInfoReturn(reply) ==
    IF reply.net = "error"
    THEN [threw |-> TRUE, error |-> Msg("fetch failed", <<>>), userInfo |-> JUndef]
    ELSE IF ~StatusOk(reply.status)
    THEN [threw |-> TRUE,
          error |-> Msg("User info request failed with status ",
                        <<ToString(reply.status), ": ">> \o reply.raw),
          userInfo |-> JUndef]
    ELSE IF reply.json = "malformed"
    THEN [threw |-> TRUE, error |-> Msg("Failed to parse user info response: ", reply.raw),
          userInfo |-> JUndef]
    ELSE [threw |-> FALSE, error |-> NoMsg, userInfo |-> reply.value]

-----------------------------------------------------------------------------
(* src/index.ts: handleTokenExchange *)

TokenExchangeFailed == Msg("Token exchange failed", <<>>)
UserInfoFailed == Msg("Failed to retrieve user information", <<>>)

LogEntry(text, err) == [text |-> text, err |-> err]

\* What one synchronous stretch of the handler leaves: where it stands next,
\* the response (if it returned one), the cache, the outbound calls it
\* started, what it logged, and exchangeCode's config while it awaits.
Returned(rc, logs) ==
    Bind(rc, LAMBDA r : [next |-> "done", response |-> r.response, cache |-> r.cache,
                         calls |-> <<>>, log |-> logs, config |-> NoConfig,
                         token |-> NoToken])

\* An exception that no try block of handleTokenExchange catches.
Escaped(cache) ==
    [next |-> "threw", response |-> NoResponse, cache |-> cache,
     calls |-> <<>>, log |-> <<>>, config |-> NoConfig, token |-> NoToken]

\* The checks with redirect_uri tested before code.
requiredFieldErrorReordered(req) ==
    IF ~Truthy(req.redirect_uri) THEN Msg("redirect_uri is required", <<>>)
    ELSE IF ~Truthy(req.code) THEN Msg("code is required", <<>>)
    ELSE IF ~Truthy(req.provider) THEN Msg("provider is required", <<>>)
    ELSE NoMsg

\* Lines 80-88: the message naming the first missing field, NoMsg if none.
requiredFieldError(req) ==
    IF ~Truthy(req.code) THEN Msg("code is required", <<>>)
    ELSE IF ~Truthy(req.redirect_uri) THEN Msg("redirect_uri is required", <<>>)
    ELSE IF ~Truthy(req.provider) THEN Msg("provider is required", <<>>)
    ELSE NoMsg

\* A handler that does not validate the redirect_uri.
redirectUriCheckSkipped(req, allowedUris, cache) == [ret |-> TRUE, cache |-> cache]

\* Line 91: validateRedirectUri(req.redirect_uri, allowedUris)
redirectUriCheck(req, allowedUris, cache) ==
    validateRedirectUri(Interpolate(req.redirect_uri), allowedUris, cache)

\* A catch that returns the error's own message to the client.
onExchangeErrorLeaks(err, e, origin, cache) ==
    Returned(errorResponse(err, 400, origin, e.ALLOWED_REDIRECT_URIS, cache),
             <<LogEntry("OAuth token exchange error:", err)>>)

\* Lines 131-134: the catch of the outer try.
onExchangeError(err, e, origin, cache) ==
    Returned(errorResponse(TokenExchangeFailed, 400, origin,
                           e.ALLOWED_REDIRECT_URIS, cache),
             <<LogEntry("OAuth token exchange error:", err)>>)

\* Graceful degradation: the tokens are returned without a profile.
onUserInfoErrorDegrades(err, token, e, origin, cache) ==
    Returned(tokenResponse(token, origin, e.ALLOWED_REDIRECT_URIS, cache),
             <<LogEntry("Failed to fetch user info:", err)>>)

\* No inner try: the failure reaches the catch of the outer try.
onUserInfoErrorUncaught(err, token, e, origin, cache) ==
    onExchangeError(err, e, origin, cache)

\* Lines 125-128: the catch around fetchUserInfo.
onUserInfoError(err, token, e, origin, cache) ==
    Returned(errorResponse(UserInfoFailed, 500, origin,
                           e.ALLOWED_REDIRECT_URIS, cache),
             <<LogEntry("Failed to fetch user info:", err)>>)

\* Lines 96-111 and exchangeCode up to its fetch.
dispatchProvider(rq, e, cache) ==
    LET req == rq.body
    IN  IF req.provider.t # "string"
        THEN \* req.provider.toLowerCase is not a function
             onExchangeError(Msg("TypeError: toLowerCase is not a function", <<>>),
                             e, rq.origin, cache)
        ELSE LET provider == toLowerCase(req.provider.v)
                 cfg      == providerConfig(provider)
             IN  IF cfg = NoConfig
                 THEN Returned(errorResponse(Msg("Unsupported OAuth provider: ", provider),
                                             400, rq.origin, e.ALLOWED_REDIRECT_URIS, cache),
                               <<>>)
                 ELSE Bind(exchangeCodeCall(req, e, cfg),
                           LAMBDA x :
                               IF x.threw
                               THEN onExchangeError(x.error, e, rq.origin, cache)
                               ELSE [next |-> "provider", response |-> NoResponse,
                                     cache |-> cache, calls |-> x.calls, log |-> <<>>,
                                     config |-> cfg, token |-> NoToken])

\* Lines 72-111: from the settling of request.json() to the first outbound
\* call or the response.
handleBody(rq, e, cache) ==
    LET allowedUris == e.ALLOWED_REDIRECT_URIS
        req         == rq.body
    IN  IF req.json = "malformed"
        THEN Returned(errorResponse(Msg("Invalid request body", <<>>), 400,
                                    rq.origin, allowedUris, cache), <<>>)
        ELSE IF req.json = "null"
        THEN \* req.code on null: a TypeError outside every try block
             Escaped(cache)
        ELSE IF requiredFieldError(req) # NoMsg
        THEN Returned(errorResponse(requiredFieldError(req), 400,
                                    rq.origin, allowedUris, cache), <<>>)
        ELSE Bind(redirectUriCheck(req, allowedUris, cache),
                  LAMBDA v :
                      IF ~v.ret
                      THEN Returned(errorResponse(Msg("invalid redirect_uri", <<>>), 400,
                                                  rq.origin, allowedUris, v.cache),
                                    <<LogEntry("Invalid redirect_uri attempted: ",
                                               Msg("", Interpolate(req.redirect_uri)))>>)
                      ELSE dispatchProvider(rq, e, v.cache))

\* A handler that calls the provider again when the exchange failed.
afterExchangeRetries(rq, e, cache, x) ==
    IF x.threw THEN dispatchProvider(rq, e, cache)
    ELSE [next |-> "backend", response |-> NoResponse, cache |-> cache,
          calls |-> <<fetchUserInfoCall(x.token.id_token, e, JUndef)>>,
          log |-> <<>>, config |-> NoConfig, token |-> x.token]

\* Lines 103-123: from exchangeCode's outcome x to the backend call.
afterExchange(rq, e, cache, x) ==
    IF x.threw THEN onExchangeError(x.error, e, rq.origin, cache)
    ELSE IF ~Truthy(x.token.id_token)
    THEN Returned(errorResponse(TokenExchangeFailed, 400, rq.origin,
                                e.ALLOWED_REDIRECT_URIS, cache),
                  <<LogEntry("id_token missing from provider response", NoMsg)>>)
    ELSE LET referralCode == IF Truthy(rq.referral) THEN rq.referral ELSE JUndef
         IN  [next |-> "backend", response |-> NoResponse, cache |-> cache,
              calls |-> <<fetchUserInfoCall(x.token.id_token, e, referralCode)>>,
              log |-> <<>>, config |-> NoConfig, token |-> x.token]

\* A handler that keeps tokenResp in module scope, shared by the requests in
\* flight: the response is built from the tokens of the request with the
\* highest id that holds any.
afterUserInfoSharedToken(rq, e, cache, token, u) ==
    LET holders == {r \in DOMAIN tokenResp : tokenResp[r] # NoToken}
        shared  == IF holders = {} THEN token
                   ELSE tokenResp[CHOOSE r \in holders : \A q \in holders : q <= r]
    IN  IF u.threw THEN onUserInfoError(u.error, token, e, rq.origin, cache)
        ELSE Returned(tokenResponse([shared EXCEPT !.user_info = u.userInfo],
                                    rq.origin, e.ALLOWED_REDIRECT_URIS, cache),
                      <<>>)

\* Lines 123-130: from fetchUserInfo's outcome u to the response.
afterUserInfo(rq, e, cache, token, u) ==
    IF u.threw THEN onUserInfoError(u.error, token, e, rq.origin, cache)
    ELSE Returned(tokenResponse([token EXCEPT !.user_info = u.userInfo],
                                rq.origin, e.ALLOWED_REDIRECT_URIS, cache),
                  <<>>)

-----------------------------------------------------------------------------
(* The configurations, requests and replies the model draws from *)

Allowlist == <<"h", "t", "t", "p", "s", ":", "/", "/", "a", ".", "i", "o", "/", "*", ",", " ", "h", "t", "t", "p", "s", ":", "/", "/", "*", ".", "b", ".", "i", "o", "/", "c", "b">>

CredentialKeys ==
    {"GOOGLE_OAUTH_CLIENT_ID", "GOOGLE_OAUTH_CLIENT_SECRET",
     "MICROSOFT_OAUTH_CLIENT_ID", "MICROSOFT_OAUTH_CLIENT_SECRET"}

\* Every credential configured to a value of its own.
Configured ==
    [GOOGLE_OAUTH_CLIENT_ID |-> JStr(<<"g", "i", "d">>),
     GOOGLE_OAUTH_CLIENT_SECRET |-> JStr(<<"g", "s", "e", "c">>),
     MICROSOFT_OAUTH_CLIENT_ID |-> JStr(<<"m", "i", "d">>),
     MICROSOFT_OAUTH_CLIENT_SECRET |-> JStr(<<"m", "s", "e", "c">>)]

\* Environments in which at most MaxUnsetCreds credentials are missing
\* (undefined) or empty.
Envs ==
    {[ENVIRONMENT |-> "production",
      USER_INFO_SERVICE_URL |-> "https://backend.internal",
      ALLOWED_REDIRECT_URIS |-> Allowlist,
      GOOGLE_OAUTH_CLIENT_ID |-> c["GOOGLE_OAUTH_CLIENT_ID"],
      GOOGLE_OAUTH_CLIENT_SECRET |-> c["GOOGLE_OAUTH_CLIENT_SECRET"],
      MICROSOFT_OAUTH_CLIENT_ID |-> c["MICROSOFT_OAUTH_CLIENT_ID"],
      MICROSOFT_OAUTH_CLIENT_SECRET |-> c["MICROSOFT_OAUTH_CLIENT_SECRET"]] :
        c \in {f \in [CredentialKeys -> {JUndef, JStr(<<>>)} \cup Range(Configured)] :
                  /\ \A k \in CredentialKeys : Truthy(f[k]) => f[k] = Configured[k]
                  /\ Cardinality({k \in CredentialKeys : ~Truthy(f[k])})
                        <= MaxUnsetCreds}}

Origins == {JNull, JStr(<<"h", "t", "t", "p", "s", ":", "/", "/", "a", ".", "i", "o">>), JStr(<<"h", "t", "t", "p", "s", ":", "/", "/", "e", ".", "i", "o">>)}
Referrals == {JNull, JStr(<<>>), JStr(<<"r", "e", "f">>)}

Codes == {JUndef, JStr(<<>>), JStr(<<"c", "o", "d", "e">>)}
RedirectUris ==
    {JUndef, JStr(<<>>), JStr(<<"h", "t", "t", "p", "s", ":", "/", "/", "a", ".", "i", "o", "/", "x">>), JStr(<<"h", "t", "t", "p", "s", ":", "/", "/", "x", ".", "b", ".", "i", "o", "/", "c", "b">>),
     JStr(<<"h", "t", "t", "p", "s", ":", "/", "/", "e", ".", "i", "o", "/">>)}
ProviderNames ==
    {<<"g", "o", "o", "g", "l", "e">>, <<"G", "o", "o", "G", "l", "e">>, <<"o", "u", "t", "l", "o", "o", "k">>,
     <<"O", "U", "T", "L", "O", "O", "K">>, <<"m", "i", "c", "r", "o", "s", "o", "f", "t">>, <<"M", "i", "c", "r", "o", "s", "o", "f", "t">>,
     <<"g", "i", "t", "h", "u", "b">>, <<"G", "i", "t", "H", "u", "b">>}
Providers == {JUndef, JStr(<<>>), JNum(<<"7">>)} \cup {JStr(n) : n \in ProviderNames}
Verifiers == {JUndef, JStr(<<"v", "e", "r">>)}

\* What request.json() settles to: a rejection (text that is not JSON), null,
\* a JSON value that is no object (every property read gives undefined), or
\* an object with the fields of TokenExchangeRequest.
NoFields ==
    [code |-> JUndef, redirect_uri |-> JUndef, provider |-> JUndef,
     code_verifier |-> JUndef]
Bodies ==
    {[json |-> j, code |-> JUndef, redirect_uri |-> JUndef, provider |-> JUndef,
      code_verifier |-> JUndef] : j \in {"malformed", "null", "scalar"}}
    \cup
    {[json |-> "object", code |-> c, redirect_uri |-> u, provider |-> p,
      code_verifier |-> v] :
        c \in Codes, u \in RedirectUris, p \in Providers, v \in Verifiers}

Requests ==
    {[origin |-> o, referral |-> r, body |-> b] :
        o \in Origins, r \in Referrals, b \in Bodies}

NoRequest == [origin |-> JNull, referral |-> JNull,
              body |-> [json |-> "none", code |-> JUndef, redirect_uri |-> JUndef,
                        provider |-> JUndef, code_verifier |-> JUndef]]

AccessToken == JStr(<<"a", "t">>)
IdToken == JStr(<<"i", "d", "t">>)

\* The provider's replies: the fetch rejecting, or a status with a body that
\* is not JSON, is null, is a JSON value that is no object, or is an object.
ProviderReplies ==
    {[net |-> "error", status |-> 0, json |-> "none", raw |-> <<>>,
      access_token |-> JUndef, id_token |-> JUndef, user_info |-> JUndef,
      error |-> JUndef, error_description |-> JUndef]}
    \cup
    {[net |-> "response", status |-> st, json |-> j, raw |-> <<"o", "o", "p", "s">>,
      access_token |-> JUndef, id_token |-> JUndef, user_info |-> JUndef,
      error |-> JUndef, error_description |-> JUndef] :
        st \in {200, 400, 401}, j \in {"malformed", "null", "scalar"}}
    \cup
    {[net |-> "response", status |-> st, json |-> "object", raw |-> <<"{", "}">>,
      access_token |-> JUndef, id_token |-> JUndef, user_info |-> JUndef,
      error |-> ed[1], error_description |-> ed[2]] :
        st \in {400, 401},
        ed \in {<<JUndef, JUndef>>,
                <<JStr(<<"i", "n", "v", "a", "l", "i", "d", "_", "g", "r", "a", "n", "t">>), JStr(<<"e", "x", "p", "i", "r", "e", "d">>)>>}}
    \cup
    {[net |-> "response", status |-> 200, json |-> "object", raw |-> <<"{", "}">>,
      access_token |-> a, id_token |-> i, user_info |-> u,
      error |-> JUndef, error_description |-> JUndef] :
        a \in {JUndef, JStr(<<>>), AccessToken},
        i \in {JUndef, JStr(<<>>), IdToken},
        u \in {JUndef, JObj(<<"f", "o", "r", "g", "e", "d">>)}}

Profile == JObj(<<"p", "r", "o", "f", "i", "l", "e">>)

\* The backend's replies.
BackendReplies ==
    {[net |-> "error", status |-> 0, json |-> "none", raw |-> <<>>, value |-> JUndef]}
    \cup
    {[net |-> "response", status |-> st, json |-> "malformed", raw |-> <<"o", "o", "p", "s">>,
      value |-> JUndef] : st \in {200, 500}}
    \cup
    {[net |-> "response", status |-> st, json |-> "value", raw |-> <<"{", "}">>,
      value |-> v] : st \in {200, 500}, v \in {JNull, Profile}}

\* A reply as inbound records it: the two kinds of reply in one shape.
ProviderSeen(reply) ==
    [from |-> "provider", net |-> reply.net, status |-> reply.status,
     json |-> reply.json, raw |-> reply.raw, access_token |-> reply.access_token,
     id_token |-> reply.id_token, user_info |-> reply.user_info,
     error |-> reply.error, error_description |-> reply.error_description,
     value |-> JUndef]
BackendSeen(reply) ==
    [from |-> "backend", net |-> reply.net, status |-> reply.status,
     json |-> reply.json, raw |-> reply.raw, access_token |-> JUndef,
     id_token |-> JUndef, user_info |-> JUndef,
     error |-> JUndef, error_description |-> JUndef,
     value |-> reply.value]

-----------------------------------------------------------------------------
(* The handling of one POST /oauth/token request *)

FnIdle ==
    /\ fnPc = "idle" /\ fnName = "none" /\ fnUri = <<>> /\ fnArg = <<>>
    /\ fnRet = FALSE

HandlerIdle ==
    /\ env = CHOOSE e \in Envs : \A k \in CredentialKeys : Truthy(e[k])
    /\ pc = "off"
    /\ request = NoRequest
    /\ config = NoConfig
    /\ tokenResp = NoToken
    /\ outbound = <<>>
    /\ inbound = <<>>
    /\ response = NoResponse
    /\ log = <<>>

Init ==
    /\ regexCache = EmptyMap
    /\ env \in Envs
    /\ pc = "idle"
    /\ request = NoRequest
    /\ config = NoConfig
    /\ tokenResp = NoToken
    /\ outbound = <<>>
    /\ inbound = <<>>
    /\ response = NoResponse
    /\ log = <<>>
    /\ FnIdle

\* What a synchronous stretch r of the handler leaves in the state.
Leave(r) ==
    /\ pc' = r.next
    /\ response' = r.response
    /\ regexCache' = r.cache
    /\ outbound' = outbound \o r.calls
    /\ log' = log \o r.log
    /\ config' = r.config
    /\ tokenResp' = r.token

\* fetch() routes a POST /oauth/token to handleTokenExchange, which awaits
\* request.json().
Receive ==
    /\ pc = "idle"
    /\ \E rq \in Requests : request' = rq
    /\ pc' = "json"
    /\ UNCHANGED <<regexCache, env, config, tokenResp, outbound, inbound, response, log>>
    /\ UNCHANGED fnVars

\* request.json() settles; the handler runs to its first outbound call or to
\* its response.
ParseBody ==
    /\ pc = "json"
    /\ \E r \in {handleBody(request, env, regexCache)} : Leave(r)
    /\ UNCHANGED <<env, request, inbound>>
    /\ UNCHANGED fnVars

\* The provider's reply arrives; exchangeCode finishes and the handler runs
\* to the backend call or to its response.
ProviderReply ==
    /\ pc = "provider"
    /\ \E reply \in ProviderReplies :
          \E x \in {exchangeCodeReturn(reply)} :
              \E r \in {afterExchange(request, env, regexCache, x)} :
                  Leave(r) /\ inbound' = Append(inbound, ProviderSeen(reply))
    /\ UNCHANGED <<env, request>>
    /\ UNCHANGED fnVars

\* The backend's reply arrives; fetchUserInfo finishes and the handler
\* responds.
BackendReply ==
    /\ pc = "backend"
    /\ \E reply \in BackendReplies :
          \E u \in {fetchUserInfoReturn(reply)} :
              \E r \in {afterUserInfo(request, env, regexCache, tokenResp, u)} :
                  Leave(r) /\ inbound' = Append(inbound, BackendSeen(reply))
    /\ UNCHANGED <<env, request>>
    /\ UNCHANGED fnVars

Next == Receive \/ ParseBody \/ ProviderReply \/ BackendReply

Spec == Init /\ [][Next]_vars

-----------------------------------------------------------------------------
(* Properties of handleTokenExchange *)

Done == pc = "done"

\* The response is the flat JSON object {error: msg} with this status.
RespondedError(status, msg) ==
    /\ response.status = status
    /\ response.kind = "error"
    /\ response.error = msg
    /\ response.token = NoToken

\* The allowlist verdict on a redirect_uri field, whatever the cache holds.
Accepts(uri) ==
    /\ uri.t = "string"
    /\ validateRedirectUri(uri.v, env.ALLOWED_REDIRECT_URIS, EmptyMap).ret

AllFieldsPresent ==
    /\ request.body.json = "object"
    /\ Truthy(request.body.code)
    /\ Truthy(request.body.redirect_uri)
    /\ Truthy(request.body.provider)

\* A provider reply from which exchangeCode is to return tokens.
GoodProviderReply(r) ==
    /\ r.from = "provider" /\ r.net = "response"
    /\ r.status \in 200..299
    /\ r.json = "object"
    /\ Truthy(r.access_token) /\ Truthy(r.id_token)

\* A backend reply from which fetchUserInfo is to return a profile.
GoodBackendReply(r) ==
    /\ r.from = "backend" /\ r.net = "response"
    /\ r.status \in 200..299
    /\ r.json = "value"

\* C1: a 200 response carries a non-empty access_token, a non-empty id_token
\* and the user_info of a successful enrichment call of the same request (made
\* with the id_token of this request's exchange); no other response carries
\* any token.
C1_SuccessCarriesTokensAndProfile ==
    /\ response.status = 200 =>
          /\ response.kind = "token"
          /\ Truthy(response.token.access_token)
          /\ Truthy(response.token.id_token)
          /\ Len(inbound) = 2 /\ Len(outbound) = 2
          /\ GoodProviderReply(inbound[1])
          /\ response.token.access_token = inbound[1].access_token
          /\ response.token.id_token = inbound[1].id_token
          /\ outbound[2].to = "backend"
          /\ outbound[2].headers.x_auth_token = inbound[1].id_token
          /\ GoodBackendReply(inbound[2])
          /\ response.token.user_info = inbound[2].value
          /\ response.token.user_info # JUndef
    /\ response.status # 200 => response.token = NoToken

\* A 200 whose profile replaced a user_info field the provider reply carried.
C1_Witness ==
    /\ response.status = 200
    /\ inbound[1].user_info # JUndef
    /\ response.token.user_info = Profile

\* C2 as stated: every request whose redirect_uri does not match the
\* allowlist is answered 400 {error: "invalid redirect_uri"} and makes no
\* outbound call.
C2_EveryUnmatchedRedirectIsInvalidRedirect ==
    (/\ pc \in {"done", "threw"}
     /\ request.body.json = "object"
     /\ request.body.redirect_uri.t = "string"
     /\ ~Accepts(request.body.redirect_uri))
    => /\ RespondedError(400, Msg("invalid redirect_uri", <<>>))
       /\ outbound = <<>>

\* C2 amended: a request with non-empty code, redirect_uri and provider whose
\* redirect_uri does not match the allowlist is answered 400 {error: "invalid
\* redirect_uri"}; and whatever else a request holds, if its redirect_uri does
\* not match the allowlist no outbound call is ever made: every provider call
\* carries the request's redirect_uri, which validateRedirectUri accepted.
C2_UnmatchedRedirectMakesNoCall ==
    /\ (Done /\ AllFieldsPresent /\ ~Accepts(request.body.redirect_uri))
          => RespondedError(400, Msg("invalid redirect_uri", <<>>))
    /\ (pc # "idle" /\ ~Accepts(request.body.redirect_uri)) => outbound = <<>>
    /\ \A i \in 1..Len(outbound) :
          /\ Accepts(request.body.redirect_uri)
          /\ outbound[i].to = "provider" =>
                /\ outbound[i].form.redirect_uri = request.body.redirect_uri
                /\ Accepts(outbound[i].form.redirect_uri)

\* A well-formed request with a disallowed redirect_uri has been rejected.
C2_Witness ==
    /\ Done /\ AllFieldsPresent
    /\ request.body.redirect_uri = JStr(<<"h", "t", "t", "p", "s", ":", "/", "/", "e", ".", "i", "o", "/">>)
    /\ RespondedError(400, Msg("invalid redirect_uri", <<>>))

\* C3: when the provider exchange succeeded and enrichment failed (the call
\* threw, the backend answered non-2xx, or its body is not JSON), the response
\* is 500 {error: "Failed to retrieve user information"} and carries no token
\* field.
C3_EnrichmentFailureIs500WithoutTokens ==
    (/\ Done
     /\ Len(inbound) = 2
     /\ GoodProviderReply(inbound[1])
     /\ ~GoodBackendReply(inbound[2]))
    => /\ RespondedError(500, Msg("Failed to retrieve user information", <<>>))
       /\ response.token.access_token = JUndef
       /\ response.token.id_token = JUndef

\* Enrichment failed on a 2xx reply whose body is not JSON.
C3_Witness ==
    /\ Done /\ Len(inbound) = 2
    /\ GoodProviderReply(inbound[1])
    /\ inbound[2].net = "response" /\ inbound[2].status = 200
    /\ inbound[2].json = "malformed"
    /\ response.status = 500

\* The exchange was started: the request passed every check before it.
ExchangeStarted ==
    /\ AllFieldsPresent
    /\ Accepts(request.body.redirect_uri)
    /\ request.body.provider.t = "string"
    /\ toLowerCase(request.body.provider.v) \in
          {<<"g", "o", "o", "g", "l", "e">>, <<"o", "u", "t", "l", "o", "o", "k">>, <<"m", "i", "c", "r", "o", "s", "o", "f", "t">>}

\* The exchange failed: on a missing credential before any call, or on the
\* provider's reply.
ExchangeFailed ==
    /\ Done /\ ExchangeStarted
    /\ \/ outbound = <<>>
       \/ Len(inbound) >= 1 /\ ~GoodProviderReply(inbound[1])

\* C4: whenever the provider exchange fails the client gets exactly 400
\* {error: "Token exchange failed"}: the response is a function of the request
\* and the configuration alone (the CORS header), so two runs that differ in
\* the provider's failing reply, or in which failure occurred, get the same
\* response.
C4_ExchangeFailureIsOpaque ==
    ExchangeFailed =>
        response =
            [status |-> 400, kind |-> "error",
             error |-> Msg("Token exchange failed", <<>>),
             token |-> NoToken,
             allowOrigin |-> corsHeaders(request.origin, env.ALLOWED_REDIRECT_URIS,
                                         EmptyMap).allowOrigin]

\* The provider answered 401 with an OAuth error object.
C4_Witness ==
    /\ ExchangeFailed
    /\ Len(inbound) = 1
    /\ inbound[1].status = 401 /\ inbound[1].json = "object"
    /\ Truthy(inbound[1].error)
    /\ response.status = 400

\* C5: whatever JSON value the body parses to, no failure escapes
\* handleTokenExchange as an unhandled exception: the handler always ends with
\* a response, and a failure no step maps is answered 400 {error: "Token
\* exchange failed"}.
C5_NoFailureEscapes ==
    /\ pc # "threw"
    /\ Done => response # NoResponse
    /\ (Done /\ AllFieldsPresent /\ Accepts(request.body.redirect_uri)
           /\ request.body.provider.t # "string")
          => RespondedError(400, Msg("Token exchange failed", <<>>))

\* The first field, in the order code, redirect_uri, provider, that is
\* missing or empty.
FirstMissing ==
    IF ~Truthy(request.body.code) THEN "code"
    ELSE IF ~Truthy(request.body.redirect_uri) THEN "redirect_uri"
    ELSE IF ~Truthy(request.body.provider) THEN "provider"
    ELSE "none"

\* C6: for a body that is a JSON object with code, redirect_uri or provider
\* missing or empty, the response is 400 with the message naming the first
\* missing field in the order code, redirect_uri, provider; the redirect_uri
\* is not matched against the allowlist (no pattern of it is compiled,
\* nothing is logged) and no outbound call is made.
C6_MissingFieldNamedInOrder ==
    (Done /\ request.body.json = "object" /\ FirstMissing # "none")
    => /\ response.status = 400 /\ response.kind = "error"
       /\ response.token = NoToken
       /\ FirstMissing = "code" => response.error = Msg("code is required", <<>>)
       /\ FirstMissing = "redirect_uri" =>
             response.error = Msg("redirect_uri is required", <<>>)
       /\ FirstMissing = "provider" =>
             response.error = Msg("provider is required", <<>>)
       /\ outbound = <<>>
       /\ log = <<>>
       /\ \A p \in DOMAIN regexCache :
             p \notin Range(splitPatterns(env.ALLOWED_REDIRECT_URIS))

\* Both code and redirect_uri are missing and code is the one named.
C6_Witness ==
    /\ Done /\ request.body.json = "object"
    /\ ~Truthy(request.body.code) /\ ~Truthy(request.body.redirect_uri)
    /\ Truthy(request.body.provider)
    /\ response.error = Msg("code is required", <<>>)

\* C7: a request with all required fields and an allowed redirect_uri whose
\* lower-cased provider is none of google, microsoft, outlook is answered 400
\* {error: "Unsupported OAuth provider: <lower-cased provider>"} and makes no
\* outbound call.
C7_UnknownProviderIsRejected ==
    (/\ Done /\ AllFieldsPresent
     /\ Accepts(request.body.redirect_uri)
     /\ request.body.provider.t = "string"
     /\ toLowerCase(request.body.provider.v) \notin
           {<<"g", "o", "o", "g", "l", "e">>, <<"o", "u", "t", "l", "o", "o", "k">>, <<"m", "i", "c", "r", "o", "s", "o", "f", "t">>})
    => /\ RespondedError(400, Msg("Unsupported OAuth provider: ",
                                  toLowerCase(request.body.provider.v)))
       /\ outbound = <<>>

\* "GitHub" has been rejected under its lower-cased name.
C7_Witness ==
    /\ Done
    /\ request.body.provider = JStr(<<"G", "i", "t", "H", "u", "b">>)
    /\ response.error = Msg("Unsupported OAuth provider: ", <<"g", "i", "t", "h", "u", "b">>)

\* The positions of the calls to one destination.
CallsTo(dest) == {i \in 1..Len(outbound) : outbound[i].to = dest}

\* C15: one request makes at most one call to the provider token endpoint and
\* at most one to the backend /user/info endpoint; the backend call comes
\* second, after the provider's reply has given both tokens, and carries the
\* id_token of that reply; after a failed call nothing more is sent.
C15_AtMostOneCallEachInOrder ==
    /\ Cardinality(CallsTo("provider")) <= 1
    /\ Cardinality(CallsTo("backend")) <= 1
    /\ Len(outbound) <= 2
    /\ Len(inbound) <= Len(outbound)
    /\ pc = "provider" <=> (Len(outbound) = 1 /\ Len(inbound) = 0)
    /\ pc = "backend" <=> (Len(outbound) = 2 /\ Len(inbound) = 1)
    /\ \A i \in CallsTo("provider") :
          /\ i = 1
          /\ outbound[i].method = "POST"
    /\ \A i \in CallsTo("backend") :
          /\ i = 2
          /\ outbound[1].to = "provider"
          /\ Len(inbound) >= 1
          /\ GoodProviderReply(inbound[1])
          /\ outbound[i].method = "GET"
          /\ outbound[i].url = <<env.USER_INFO_SERVICE_URL, "/user/info">>
          /\ outbound[i].headers.x_auth_token = inbound[1].id_token
    /\ (Len(inbound) >= 1 /\ ~GoodProviderReply(inbound[1])) =>
          (Len(outbound) = 1 /\ pc = "done")
    /\ Len(inbound) = 2 => (Len(outbound) = 2 /\ pc = "done")

\* Both calls were made, the backend's failed, and the request has ended.
C15_Witness ==
    /\ Done
    /\ Len(outbound) = 2 /\ Len(inbound) = 2
    /\ outbound[1].to = "provider" /\ outbound[2].to = "backend"
    /\ inbound[2].net = "error"
    /\ response.status = 500

\* The state of the request's state machine, read off the handler: it is
\* Received while the body is read, Validated while the exchange is awaited,
\* Exchanged while the enrichment is awaited, Responded once the 200 is
\* returned (Enriched lies inside that last stretch), Failed once an error
\* response is returned, Threw when an exception left the handler.
Stage ==
    CASE pc = "idle" -> "Idle"
      [] pc = "json" -> "Received"
      [] pc = "provider" -> "Validated"
      [] pc = "backend" -> "Exchanged"
      [] pc = "done" /\ response.status = 200 -> "Responded"
      [] pc = "done" /\ response.status # 200 -> "Failed"
      [] OTHER -> "Threw"

StageSteps ==
    {<<"Idle", "Received">>,
     <<"Received", "Validated">>, <<"Received", "Failed">>,
     <<"Validated", "Exchanged">>, <<"Validated", "Failed">>,
     <<"Exchanged", "Responded">>, <<"Exchanged", "Failed">>}

StageStep == <<Stage, Stage'>> \in StageSteps

\* The first check that fails, in the order body parse, code, redirect_uri,
\* provider present, allowlist match, provider recognised, exchange,
\* enrichment ("none": no check has failed so far).  The id_token check has
\* no case of its own: an exchange that succeeded has given an id_token.
FirstFailingCheck ==
    LET req == request.body
    IN  IF req.json = "malformed" THEN "body parse"
        ELSE IF FirstMissing # "none" THEN FirstMissing
        ELSE IF ~Accepts(req.redirect_uri) THEN "allowlist match"
        ELSE IF req.provider.t # "string" THEN "provider normalised"
        ELSE IF toLowerCase(req.provider.v) \notin {<<"g", "o", "o", "g", "l", "e">>, <<"o", "u", "t", "l", "o", "o", "k">>, <<"m", "i", "c", "r", "o", "s", "o", "f", "t">>}
             THEN "provider recognised"
        ELSE IF outbound = <<>> THEN "exchange"
        ELSE IF Len(inbound) >= 1 /\ ~GoodProviderReply(inbound[1]) THEN "exchange"
        ELSE IF Len(inbound) >= 2 /\ ~GoodBackendReply(inbound[2]) THEN "enrichment"
        ELSE "none"

\* The failure each check reports.
FailureOf(check) ==
    CASE check = "body parse" -> [status |-> 400, error |-> Msg("Invalid request body", <<>>)]
      [] check = "code" -> [status |-> 400, error |-> Msg("code is required", <<>>)]
      [] check = "redirect_uri" ->
            [status |-> 400, error |-> Msg("redirect_uri is required", <<>>)]
      [] check = "provider" -> [status |-> 400, error |-> Msg("provider is required", <<>>)]
      [] check = "allowlist match" ->
            [status |-> 400, error |-> Msg("invalid redirect_uri", <<>>)]
      [] check = "provider normalised" -> [status |-> 400, error |-> TokenExchangeFailed]
      [] check = "provider recognised" ->
            [status |-> 400,
             error |-> Msg("Unsupported OAuth provider: ",
                           toLowerCase(request.body.provider.v))]
      [] check = "exchange" -> [status |-> 400, error |-> TokenExchangeFailed]
      [] check = "enrichment" -> [status |-> 500, error |-> UserInfoFailed]
      [] OTHER -> [status |-> 200, error |-> NoMsg]

ReportsFirstFailingCheck ==
    /\ response.status = FailureOf(FirstFailingCheck).status
    /\ response.error = FailureOf(FirstFailingCheck).error

\* C17: a request moves through Received, Validated, Exchanged, Enriched,
\* Responded in that order, without skipping or going back, leaving only to
\* Failed; and the failure reported is that of the first failing check in the
\* order body parse, code, redirect_uri, provider present, allowlist match,
\* provider recognised, exchange, id_token present, enrichment.
C17_StagesInOrderFirstFailureReported ==
    /\ [][StageStep]_vars
    /\ [](pc \notin {"idle", "json", "provider", "backend"} =>
             (Done /\ ReportsFirstFailingCheck))

\* The part of C17 the code does satisfy: the same for every body but null.
StagesInOrderOffNullBody ==
    /\ [][request'.body.json # "null" => StageStep]_vars
    /\ []((request.body.json # "null"
              /\ pc \notin {"idle", "json", "provider", "backend"}) =>
             (Done /\ ReportsFirstFailingCheck))

\* The credential pair of the provider the request names.
ClientId ==
    IF toLowerCase(request.body.provider.v) = <<"g", "o", "o", "g", "l", "e">>
    THEN env.GOOGLE_OAUTH_CLIENT_ID ELSE env.MICROSOFT_OAUTH_CLIENT_ID
ClientSecret ==
    IF toLowerCase(request.body.provider.v) = <<"g", "o", "o", "g", "l", "e">>
    THEN env.GOOGLE_OAUTH_CLIENT_SECRET ELSE env.MICROSOFT_OAUTH_CLIENT_SECRET

\* exchangeCode has returned a token response: the handler holds it while it
\* awaits the backend, whose call carries its id_token.
ExchangeReturnedTokens ==
    /\ Len(outbound) = 2
    /\ Len(inbound) >= 1
    /\ outbound[2].headers.x_auth_token = inbound[1].id_token
    /\ pc = "backend" =>
          /\ tokenResp.access_token = inbound[1].access_token
          /\ tokenResp.id_token = inbound[1].id_token

\* exchangeCode has thrown: the catch of the handler logged the error and
\* answered, no token is held.
ExchangeThrew ==
    /\ Done
    /\ Len(outbound) <= 1
    /\ tokenResp = NoToken
    /\ RespondedError(400, TokenExchangeFailed)
    /\ Len(log) = 1 /\ log[1].text = "OAuth token exchange error:"

\* C18: exchangeCode returns a token response iff the provider's client id
\* and client secret are both configured non-empty, the provider's status is
\* 2xx, the body parses as JSON and holds a non-empty access_token and a
\* non-empty id_token; in every other case it fails with an error and returns
\* nothing, and on a missing credential it fails before any outbound call.
C18_ExchangeReturnsIffAllHolds ==
    (ExchangeStarted /\ pc \notin {"idle", "json"}) =>
        /\ (~Truthy(ClientId) \/ ~Truthy(ClientSecret)) =>
              /\ outbound = <<>> /\ inbound = <<>>
              /\ ExchangeThrew
              /\ log[1].err.text = " is not configured"
        /\ (Truthy(ClientId) /\ Truthy(ClientSecret)) =>
              /\ Len(outbound) >= 1
              /\ outbound[1].form.client_id = ClientId
              /\ outbound[1].form.client_secret = ClientSecret
        /\ Len(inbound) >= 1 =>
              /\ ExchangeReturnedTokens <=>
                    (/\ Truthy(ClientId) /\ Truthy(ClientSecret)
                     /\ inbound[1].net = "response"
                     /\ StatusOk(inbound[1].status)
                     /\ inbound[1].json \notin {"malformed", "none"}
                     /\ inbound[1].json = "object"
                     /\ Truthy(inbound[1].access_token)
                     /\ Truthy(inbound[1].id_token))
              /\ ~ExchangeReturnedTokens => ExchangeThrew

\* The client secret is configured empty: the exchange failed without a call.
C18_Witness ==
    /\ ExchangeStarted /\ Done
    /\ toLowerCase(request.body.provider.v) = <<"o", "u", "t", "l", "o", "o", "k">>
    /\ env.MICROSOFT_OAUTH_CLIENT_SECRET = JStr(<<>>)
    /\ outbound = <<>>
    /\ log[1].err = Msg(" is not configured", <<"MICROSOFT_OAUTH_CLIENT_SECRET">>)

\* The handler left through its own id_token check (index.ts:114-117), which
\* logs this line and nothing else does.
IdTokenExitTaken ==
    \E i \in DOMAIN log : log[i].text = "id_token missing from provider response"

\* C21: the handler's own id_token-missing exit is never taken: whenever the
\* exchange returns normally the token response it returned holds a non-empty
\* id_token, and a reply without one is answered by the catch of the exchange
\* routine's own error.
C21_IdTokenExitNeverTaken ==
    /\ ~IdTokenExitTaken
    /\ tokenResp # NoToken => Truthy(tokenResp.id_token)
    /\ (/\ Done
        /\ Len(inbound) >= 1
        /\ StatusOk(inbound[1].status)
        /\ inbound[1].json = "object"
        /\ Truthy(inbound[1].access_token)
        /\ ~Truthy(inbound[1].id_token))
       => /\ RespondedError(400, TokenExchangeFailed)
          /\ log = <<LogEntry("OAuth token exchange error:",
                              Msg("id_token missing in token response", <<>>))>>

\* The provider answered 200 with an access_token and an empty id_token: the
\* exchange threw and the handler answered from its catch.
C21_Witness ==
    /\ Done
    /\ Len(inbound) = 1
    /\ inbound[1].status = 200
    /\ inbound[1].access_token = AccessToken
    /\ inbound[1].id_token = JStr(<<>>)
    /\ RespondedError(400, TokenExchangeFailed)
    /\ log[1].err = Msg("id_token missing in token response", <<>>)

-----------------------------------------------------------------------------
(* Provider dispatch over every casing of the provider names *)

toUpperChar(c) ==
    IF c \in Range(LowerCase)
    THEN UpperCase[CHOOSE i \in DOMAIN LowerCase : LowerCase[i] = c]
    ELSE c

\* Every way of writing word w in upper and lower case.
RECURSIVE Casings(_)
Casings(w) ==
    IF w = <<>> THEN {<<>>}
    ELSE {<<c>> \o r : c \in {Head(w), toUpperChar(Head(w))}, r \in Casings(Tail(w))}

DispatchProviders ==
    Casings(<<"g", "o", "o", "g", "l", "e">>) \cup Casings(<<"o", "u", "t", "l", "o", "o", "k">>)
        \cup Casings(<<"m", "i", "c", "r", "o", "s", "o", "f", "t">>)
        \cup {<<"g", "i", "t", "h", "u", "b">>, <<"G", "i", "t", "H", "u", "b">>, <<"g", "o", "o", "g", "l">>, <<"o", "u", "t", "l", "o", "o", "k", "s">>, <<"m", "s">>}

\* Both credential pairs are configured.
InitDispatch ==
    /\ regexCache = EmptyMap
    /\ env \in {e \in Envs : \A k \in CredentialKeys : Truthy(e[k])}
    /\ pc = "idle"
    /\ request = NoRequest
    /\ config = NoConfig
    /\ tokenResp = NoToken
    /\ outbound = <<>>
    /\ inbound = <<>>
    /\ response = NoResponse
    /\ log = <<>>
    /\ FnIdle

\* A well-formed request with an allowed redirect_uri and any of the
\* provider spellings.
ReceiveProvider ==
    /\ pc = "idle"
    /\ \E p \in DispatchProviders, v \in Verifiers :
          request' = [origin |-> JNull, referral |-> JNull,
                      body |-> [json |-> "object",
                                code |-> JStr(<<"c", "o", "d", "e">>),
                                redirect_uri |-> JStr(<<"h", "t", "t", "p", "s", ":", "/", "/", "a", ".", "i", "o", "/", "x">>),
                                provider |-> JStr(p),
                                code_verifier |-> v]]
    /\ pc' = "json"
    /\ UNCHANGED <<regexCache, env, config, tokenResp, outbound, inbound, response, log>>
    /\ UNCHANGED fnVars

NextDispatch == ReceiveProvider \/ ParseBody \/ ProviderReply \/ BackendReply

SpecDispatch == InitDispatch /\ [][NextDispatch]_vars

ProviderName == toLowerCase(request.body.provider.v)

\* C8: dispatch is case-insensitive and total over the three names: any
\* casing of "outlook" or "microsoft" calls the Microsoft token endpoint with
\* the MICROSOFT_* credential pair, any casing of "google" the Google endpoint
\* with the GOOGLE_* pair, none of them is answered "Unsupported OAuth
\* provider", and the form sent is built from the request in the same way for
\* all of them.
C8_DispatchIsCaseInsensitive ==
    /\ (pc \in {"provider", "backend", "done"} /\ ExchangeStarted) =>
          /\ response.error.text # "Unsupported OAuth provider: "
          /\ Len(outbound) >= 1
          /\ outbound[1].to = "provider"
    /\ \A i \in 1..Len(outbound) :
          outbound[i].to = "provider" =>
             /\ i = 1
             /\ ProviderName = <<"g", "o", "o", "g", "l", "e">> =>
                   /\ outbound[i].url = <<"https://oauth2.googleapis.com/token">>
                   /\ outbound[i].form.client_id = env.GOOGLE_OAUTH_CLIENT_ID
                   /\ outbound[i].form.client_secret = env.GOOGLE_OAUTH_CLIENT_SECRET
             /\ ProviderName \in {<<"o", "u", "t", "l", "o", "o", "k">>, <<"m", "i", "c", "r", "o", "s", "o", "f", "t">>} =>
                   /\ outbound[i].url =
                         <<"https://login.microsoftonline.com/common/oauth2/v2.0/token">>
                   /\ outbound[i].form.client_id = env.MICROSOFT_OAUTH_CLIENT_ID
                   /\ outbound[i].form.client_secret = env.MICROSOFT_OAUTH_CLIENT_SECRET
             /\ ProviderName \in {<<"g", "o", "o", "g", "l", "e">>, <<"o", "u", "t", "l", "o", "o", "k">>, <<"m", "i", "c", "r", "o", "s", "o", "f", "t">>}
             /\ outbound[i].method = "POST"
             /\ outbound[i].form.code = request.body.code
             /\ outbound[i].form.redirect_uri = request.body.redirect_uri
             /\ outbound[i].form.grant_type = JStr(<<"a", "u", "t", "h", "o", "r", "i", "z", "a", "t", "i", "o", "n", "_", "c", "o", "d", "e">>)
             /\ outbound[i].form.code_verifier = request.body.code_verifier

\* "oUtLoOk" has been sent to the Microsoft endpoint.
C8_Witness ==
    /\ request.body.provider = JStr(<<"o", "U", "t", "L", "o", "O", "k">>)
    /\ Len(outbound) >= 1
    /\ outbound[1].url = <<"https://login.microsoftonline.com/common/oauth2/v2.0/token">>
    /\ outbound[1].form.client_id = JStr(<<"m", "i", "d">>)

-----------------------------------------------------------------------------
(* Direct calls of the validation functions on bounded inputs *)

MatchAlphabet == {"a", "*", ".", "\\", "\n"}
CsvAlphabet == {"a", "*", ",", " ", "\n"}
UriAlphabet == {"a", " ", "\n"}

InitMatch ==
    /\ regexCache = EmptyMap
    /\ HandlerIdle
    /\ fnPc = "call"
    /\ fnName = "matchesPattern"
    /\ fnUri \in StringsUpTo(MatchAlphabet, MaxUriLen)
    /\ fnArg \in StringsUpTo(MatchAlphabet, MaxPatLen)
    /\ fnRet = FALSE

InitValidate ==
    /\ regexCache = EmptyMap
    /\ HandlerIdle
    /\ fnPc = "call"
    /\ fnName = "validateRedirectUri"
    /\ fnUri \in StringsUpTo(UriAlphabet, MaxUriLen)
    /\ fnArg \in StringsUpTo(CsvAlphabet, MaxCsvLen)
    /\ fnRet = FALSE

CallMatchesPattern ==
    /\ fnPc = "call" /\ fnName = "matchesPattern"
    /\ LET m == matchesPattern(fnUri, fnArg, regexCache)
       IN  /\ fnRet' = m.ret
           /\ regexCache' = m.cache
    /\ fnPc' = "ret"
    /\ UNCHANGED <<fnName, fnUri, fnArg>>
    /\ UNCHANGED handlerVars

CallValidateRedirectUri ==
    /\ fnPc = "call" /\ fnName = "validateRedirectUri"
    /\ LET v == validateRedirectUri(fnUri, fnArg, regexCache)
       IN  /\ fnRet' = v.ret
           /\ regexCache' = v.cache
    /\ fnPc' = "ret"
    /\ UNCHANGED <<fnName, fnUri, fnArg>>
    /\ UNCHANGED handlerVars

\* The same call once more, now against the cache the first call left.
CallAgain ==
    /\ fnPc = "ret"
    /\ fnPc' = "again"
    /\ LET r == IF fnName = "matchesPattern"
                THEN matchesPattern(fnUri, fnArg, regexCache)
                ELSE validateRedirectUri(fnUri, fnArg, regexCache)
       IN  /\ fnRet' = r.ret
           /\ regexCache' = r.cache
    /\ UNCHANGED <<fnName, fnUri, fnArg>>
    /\ UNCHANGED handlerVars

NextMatch == CallMatchesPattern \/ CallAgain
NextValidate == CallValidateRedirectUri \/ CallAgain

SpecMatch == InitMatch /\ [][NextMatch]_vars
SpecValidate == InitValidate /\ [][NextValidate]_vars

-----------------------------------------------------------------------------
(* The wildcard match of the documentation, stated without regular         *)
(* expressions: `*` stands for any substring, the empty one included,      *)
(* every other character for itself, and the whole uri is consumed.        *)

RECURSIVE WildcardMatch(_, _)
WildcardMatch(uri, pattern) ==
    IF pattern = <<>> THEN uri = <<>>
    ELSE IF Head(pattern) = "*"
         THEN \E k \in 0..Len(uri) : WildcardMatch(Drop(uri, k), Tail(pattern))
         ELSE /\ uri # <<>>
              /\ Head(uri) = Head(pattern)
              /\ WildcardMatch(Tail(uri), Tail(pattern))

\* The comma-separated entries of csv: the maximal comma-free segments.
CsvEntries(csv) ==
    {SubSeq(csv, i, j) : <<i, j>> \in
        {ij \in (1..(Len(csv) + 1)) \X (0..Len(csv)) :
            /\ ij[2] >= ij[1] - 1
            /\ ij[1] = 1 \/ csv[ij[1] - 1] = ","
            /\ ij[2] = Len(csv) \/ csv[ij[2] + 1] = ","
            /\ \A k \in ij[1]..ij[2] : csv[k] # ","}}

\* s without its leading and trailing white space.
Trimmed(s) ==
    IF \A k \in 1..Len(s) : s[k] \in WhiteSpace THEN <<>>
    ELSE LET a == CHOOSE x \in 1..Len(s) :
                    s[x] \notin WhiteSpace /\ \A k \in 1..(x - 1) : s[k] \in WhiteSpace
             b == CHOOSE x \in 1..Len(s) :
                    s[x] \notin WhiteSpace /\ \A k \in (x + 1)..Len(s) : s[k] \in WhiteSpace
         IN  SubSeq(s, a, b)

HasLineBreak(s) == \E k \in 1..Len(s) : s[k] \in LineTerminators

MatchReturned == fnPc \in {"ret", "again"} /\ fnName = "matchesPattern"
ValidateReturned == fnPc \in {"ret", "again"} /\ fnName = "validateRedirectUri"

\* C9: matchesPattern(uri, pattern) equals the wildcard match in which each
\* `*` matches any substring, every other character is literal and the whole
\* uri is matched, for every uri and pattern over an alphabet that holds regex
\* metacharacters and a line break.
C9_MatchesPatternIsWildcardMatch ==
    MatchReturned => fnRet = WildcardMatch(fnUri, fnArg)

\* The part of C9 the code does satisfy: the two agree on every uri without a
\* line break, and whenever matchesPattern accepts, the wildcard match does.
MatchesPatternOffLineBreaks ==
    MatchReturned =>
        /\ (~HasLineBreak(fnUri) => fnRet = WildcardMatch(fnUri, fnArg))
        /\ (fnRet => WildcardMatch(fnUri, fnArg))

\* C10: validateRedirectUri(uri, allowlistCsv) is true iff uri is non-empty
\* and the full uri matches at least one of the comma-separated,
\* whitespace-trimmed patterns; it is false whenever uri is empty.
C10_ValidateIffSomePatternMatches ==
    ValidateReturned =>
        fnRet = (/\ fnUri # <<>>
                 /\ \E e \in CsvEntries(fnArg) : WildcardMatch(fnUri, Trimmed(e)))

\* The part of C10 the code does satisfy: with "matches" read as the verdict
\* of matchesPattern, the split, trim and any-of composition is as stated.
ValidateIsAnyOfMatchesPattern ==
    ValidateReturned =>
        fnRet = (/\ fnUri # <<>>
                 /\ \E e \in CsvEntries(fnArg) :
                        matchesPattern(fnUri, Trimmed(e), EmptyMap).ret)

-----------------------------------------------------------------------------
(* Direct calls of isAllowedOrigin *)

OriginInputs ==
    {<<>>} \cup
    {s \o <<":", "/", "/">> \o h \o p :
        s \in {<<"h", "t", "t", "p", "s">>, <<"h", "t", "t", "p">>},
        h \in {<<"a", "p", "p", ".", "e", "x", "a", "m", "p", "l", "e", ".", "c", "o", "m">>, <<"e", "x", "a", "m", "p", "l", "e", ".", "c", "o", "m">>, <<"w", "i", "l", "d", "c", "a", "r", "d", ".", "e", "x", "a", "m", "p", "l", "e", ".", "c", "o", "m">>, <<"a", "p", "p", ".", "e", "x", "a", "m", "p", "l", "e", ".", "o", "r", "g">>},
        p \in {<<>>, <<":", "8", "0", "8", "0">>}}

PatternInputs ==
    {<<>>, <<"*">>, <<"e", "x", "a", "m", "p", "l", "e", ".", "c", "o", "m">>} \cup
    {s \o <<":", "/", "/">> \o h \o p \o q :
        s \in {<<"h", "t", "t", "p", "s">>, <<"h", "t", "t", "p">>, <<"f", "o", "o">>},
        h \in {<<"*", ".", "e", "x", "a", "m", "p", "l", "e", ".", "c", "o", "m">>, <<"a", "p", "p", ".", "e", "x", "a", "m", "p", "l", "e", ".", "c", "o", "m">>, <<"*">>},
        p \in {<<>>, <<":", "8", "0", "8", "0">>, <<":", "*">>},
        q \in {<<>>, <<"/", "c", "a", "l", "l", "b", "a", "c", "k">>, <<"/", "*">>}}

\* One pattern, or an entry that is no URL followed by a pattern.
AllowlistInputs ==
    PatternInputs \cup {<<"e", "x", "a", "m", "p", "l", "e", ".", "c", "o", "m", ",", " ">> \o p : p \in PatternInputs}

InitOrigin ==
    /\ regexCache = EmptyMap
    /\ HandlerIdle
    /\ fnPc = "call"
    /\ fnName = "isAllowedOrigin"
    /\ fnUri \in OriginInputs
    /\ fnArg \in AllowlistInputs
    /\ fnRet = FALSE

CallIsAllowedOrigin ==
    /\ fnPc = "call" /\ fnName = "isAllowedOrigin"
    /\ \E a \in {isAllowedOrigin(fnUri, fnArg, regexCache)} :
          /\ fnRet' = a.ret
          /\ regexCache' = a.cache
    /\ fnPc' = "ret"
    /\ UNCHANGED <<fnName, fnUri, fnArg>>
    /\ UNCHANGED handlerVars

NextOrigin == CallIsAllowedOrigin

SpecOrigin == InitOrigin /\ [][NextOrigin]_vars

\* The pattern has the form scheme "://" authority ..., with a non-empty
\* scheme and authority.
HasOrigin(pattern) ==
    LET colon == firstOf(pattern, {":"}, 1)
    IN  /\ colon > 1
        /\ Len(pattern) >= colon + 3
        /\ pattern[colon + 1] = "/" /\ pattern[colon + 2] = "/"
        /\ pattern[colon + 3] \notin {"/", "?", "#"}

\* scheme + "//" + host[:port] of such a pattern, its `*` kept as they are.
ReducedForm(pattern) ==
    LET colon == firstOf(pattern, {":"}, 1)
        end   == firstOf(pattern, {"/", "?", "#"}, colon + 3)
    IN  IF end = 0 THEN pattern ELSE SubSeq(pattern, 1, end - 1)

OriginReturned == fnPc = "ret" /\ fnName = "isAllowedOrigin"

\* C11: isAllowedOrigin(origin, allowlistCsv) reduces each pattern to
\* scheme + "//" + host[:port] with every `*` of that part preserved, skips
\* the patterns that are no URL, and is true iff the origin matches the
\* reduced form of some pattern: https://*.example.com/callback allows
\* https://app.example.com and rejects http://app.example.com and
\* https://app.example.com:8080.
C11_OriginMatchesReducedPattern ==
    OriginReturned =>
        fnRet = (/\ fnUri # <<>>
                 /\ \E e \in CsvEntries(fnArg) :
                        /\ HasOrigin(Trimmed(e))
                        /\ WildcardMatch(fnUri, ReducedForm(Trimmed(e))))

\* The part of C11 the code does satisfy: the result is the any-of of
\* matchesPattern over the origins extractOrigin gives, the patterns it
\* returns null for being skipped.
IsAllowedOriginIsAnyOfExtracted ==
    OriginReturned =>
        fnRet = (/\ fnUri # <<>>
                 /\ \E e \in CsvEntries(fnArg) :
                        /\ ~extractOrigin(Trimmed(e)).null
                        /\ matchesPattern(fnUri, extractOrigin(Trimmed(e)).origin,
                                          EmptyMap).ret)

-----------------------------------------------------------------------------
(* Sequences of calls of the validation functions against one cache *)

CacheUris == {<<>>, <<"a">>, <<"a", "b">>, <<"a", ".">>}
CachePatterns == {<<"a">>, <<"*">>, <<"a", "*">>, <<"*", "a">>, <<".">>, <<"a", ".">>}
CacheCsvs == {<<"a", ",", " ", "*", "a">>, <<"a", "*", ",", "a", ".">>, <<" ", ".", " ">>}
CacheOrigins == {<<"f", "o", "o", ":", "/", "/", "x">>, <<"h", "t", "t", "p", "s", ":", "/", "/", "a", ".", "i", "o">>}
CacheOriginCsvs == {<<"f", "o", "o", ":", "/", "/", "*", "/", "p", ",", " ", "a">>, <<"h", "t", "t", "p", "s", ":", "/", "/", "a", ".", "i", "o", "/", "*">>}

InitCache ==
    /\ regexCache = EmptyMap
    /\ HandlerIdle
    /\ FnIdle

\* What a call leaves: its arguments, its return value and the cache.
Called(name, uri, arg, r) ==
    /\ fnPc' = "ret"
    /\ fnName' = name
    /\ fnUri' = uri
    /\ fnArg' = arg
    /\ fnRet' = r.ret
    /\ regexCache' = r.cache
    /\ UNCHANGED handlerVars

CacheCallMatchesPattern ==
    /\ fnPc \in {"idle", "ret"}
    /\ \E uri \in CacheUris \cup CacheOrigins, pattern \in CachePatterns :
          \E r \in {matchesPattern(uri, pattern, regexCache)} :
              Called("matchesPattern", uri, pattern, r)

CacheCallValidateRedirectUri ==
    /\ fnPc \in {"idle", "ret"}
    /\ \E uri \in CacheUris, csv \in CacheCsvs :
          \E r \in {validateRedirectUri(uri, csv, regexCache)} :
              Called("validateRedirectUri", uri, csv, r)

CacheCallIsAllowedOrigin ==
    /\ fnPc \in {"idle", "ret"}
    /\ \E origin \in CacheOrigins, csv \in CacheOriginCsvs :
          \E r \in {isAllowedOrigin(origin, csv, regexCache)} :
              Called("isAllowedOrigin", origin, csv, r)

NextCache ==
    CacheCallMatchesPattern \/ CacheCallValidateRedirectUri \/ CacheCallIsAllowedOrigin

SpecCache == InitCache /\ [][NextCache]_vars

\* The verdict of the call just made, from a matcher that compiles the
\* pattern on every call.
Recompiled ==
    CASE fnName = "matchesPattern" -> matchesPattern(fnUri, fnArg, EmptyMap).ret
      [] fnName = "validateRedirectUri" -> validateRedirectUri(fnUri, fnArg, EmptyMap).ret
      [] fnName = "isAllowedOrigin" -> isAllowedOrigin(fnUri, fnArg, EmptyMap).ret
      [] OTHER -> FALSE

\* C12: after any sequence of matcher calls, from matchesPattern,
\* validateRedirectUri and isAllowedOrigin in any mix, the result of a call
\* made with the cache equals the result of a matcher that recompiles the
\* pattern on every call; so the same inputs always give the same result and
\* a match that was true never becomes false.
C12_CacheIsTransparent ==
    fnPc = "ret" => fnRet = Recompiled

\* A call answered true from a cache that holds four patterns, its own among
\* them.
C12_Witness ==
    /\ fnPc = "ret" /\ fnName = "matchesPattern"
    /\ Cardinality(DOMAIN regexCache) >= 4
    /\ fnArg = <<"a", "*">> /\ fnUri = <<"a", "b">>
    /\ fnRet

\* C19: the cache is append-only and content-keyed: an entry once inserted
\* is never removed or replaced, every key p maps to the matcher compiled from
\* exactly p, and a pattern whose compilation fails is not inserted and its
\* match returns false.
C19_CacheIsAppendOnlyAndContentKeyed ==
    /\ [](\A p \in DOMAIN regexCache :
             /\ ~NewRegExp(regexSource(p)).threw
             /\ regexCache[p] = NewRegExp(regexSource(p)).prog)
    /\ []((fnPc = "ret" /\ fnName = "matchesPattern"
              /\ NewRegExp(regexSource(fnArg)).threw)
             => (~fnRet /\ fnArg \notin DOMAIN regexCache))
    /\ [][\A p \in DOMAIN regexCache :
             /\ p \in DOMAIN regexCache'
             /\ regexCache'[p] = regexCache[p]]_vars

\* The cache holds the patterns of an allowlist and a reduced origin, and the
\* last call was answered from it.
C19_Witness ==
    /\ fnPc = "ret" /\ fnName = "validateRedirectUri"
    /\ {<<"a">>, <<"*", "a">>, <<"f", "o", "o", ":", "/", "/", "*">>} \subseteq DOMAIN regexCache
    /\ fnArg = <<"a", ",", " ", "*", "a">> /\ fnUri = <<"a">>

-----------------------------------------------------------------------------
(* src/index.ts: fetch, stripRoutePrefix, handleCors *)

\* Lines 55-63: pathname.slice(prefix.length) || '/'
stripRoutePrefix(pathname) ==
    IF StartsWith(pathname, <<"/", "a", "p", "i", "-", "s", "t", "a", "g", "i", "n", "g">>)
    THEN (IF Drop(pathname, 12) = <<>> THEN <<"/">> ELSE Drop(pathname, 12))
    ELSE IF StartsWith(pathname, <<"/", "a", "p", "i">>)
    THEN (IF Drop(pathname, 4) = <<>> THEN <<"/">> ELSE Drop(pathname, 4))
    ELSE pathname

\* Lines 177-189: the preflight response, status 204 without a body.
handleCors(origin, allowedUris, cache) ==
    IF Truthy(origin)
    THEN Bind(isAllowedOrigin(origin.v, allowedUris, cache),
              LAMBDA a : [response |-> [status |-> 204, kind |-> "empty", error |-> NoMsg,
                                        token |-> NoToken,
                                        allowOrigin |-> IF a.ret THEN origin.v ELSE <<>>],
                          cache |-> a.cache])
    ELSE [response |-> [status |-> 204, kind |-> "empty", error |-> NoMsg,
                        token |-> NoToken, allowOrigin |-> <<>>],
          cache |-> cache]

\* Line 38: jsonResponse({status: 'ok', environment: env.ENVIRONMENT}, 200, ...)
healthResponse(origin, allowedUris, cache) ==
    Bind(corsHeaders(origin, allowedUris, cache),
         LAMBDA h : [response |-> [status |-> 200, kind |-> "health", error |-> NoMsg,
                                   token |-> NoToken, allowOrigin |-> h.allowOrigin],
                     cache |-> h.cache])

\* Lines 23-48: the routing of request rq, up to the response or to the await
\* of request.json() in handleTokenExchange.
fetch(rq, e, cache) ==
    LET pathname == stripRoutePrefix(rq.path)
    IN  IF rq.method = "OPTIONS"
        THEN Returned(handleCors(rq.origin, e.ALLOWED_REDIRECT_URIS, cache), <<>>)
        ELSE IF pathname = <<"/", "h", "e", "a", "l", "t", "h">>
        THEN Returned(healthResponse(rq.origin, e.ALLOWED_REDIRECT_URIS, cache), <<>>)
        ELSE IF pathname = <<"/", "o", "a", "u", "t", "h", "/", "t", "o", "k", "e", "n">> /\ rq.method = "POST"
        THEN [next |-> "json", response |-> NoResponse, cache |-> cache,
              calls |-> <<>>, log |-> <<>>, config |-> NoConfig, token |-> NoToken]
        ELSE Returned(errorResponse(Msg("Not found", <<>>), 404, rq.origin,
                                    e.ALLOWED_REDIRECT_URIS, cache), <<>>)

RouteMethods == {"GET", "POST", "OPTIONS", "PUT", "DELETE", "HEAD"}

\* url.pathname of the request.
RoutePaths ==
    {<<"/">>, <<"/", "h", "e", "a", "l", "t", "h">>, <<"/", "o", "a", "u", "t", "h", "/", "t", "o", "k", "e", "n">>, <<"/", "a", "p", "i">>, <<"/", "a", "p", "i", "/", "h", "e", "a", "l", "t", "h">>, <<"/", "a", "p", "i", "/", "o", "a", "u", "t", "h", "/", "t", "o", "k", "e", "n">>, <<"/", "a", "p", "i", "-", "s", "t", "a", "g", "i", "n", "g">>, <<"/", "a", "p", "i", "-", "s", "t", "a", "g", "i", "n", "g", "/", "h", "e", "a", "l", "t", "h">>, <<"/", "a", "p", "i", "-", "s", "t", "a", "g", "i", "n", "g", "/", "o", "a", "u", "t", "h", "/", "t", "o", "k", "e", "n">>, <<"/", "a", "p", "i", "h", "e", "a", "l", "t", "h">>, <<"/", "a", "p", "i", "/", "a", "p", "i", "/", "h", "e", "a", "l", "t", "h">>, <<"/", "h", "e", "a", "l", "t", "h", "/">>, <<"/", "o", "t", "h", "e", "r">>}

\* The Origin header: absent, empty, or a value.
RouteOrigins == Origins \cup {JStr(<<>>), JStr(<<"*">>), JStr(<<"f", "o", "o", ":", "/", "/", "x">>)}

RouteAllowlists == {Allowlist, <<>>, <<"f", "o", "o", ":", "/", "/", "*", ",", " ", "*">>}

RouteEnvs ==
    {[e EXCEPT !.ALLOWED_REDIRECT_URIS = a] :
        e \in {x \in Envs : \A k \in CredentialKeys : Truthy(x[k])},
        a \in RouteAllowlists}

RouteBodies ==
    {b \in Bodies :
        \/ b.json \in {"malformed", "null"}
        \/ /\ b.json = "object"
           /\ b.code = JStr(<<"c", "o", "d", "e">>)
           /\ b.redirect_uri \in {JStr(<<"h", "t", "t", "p", "s", ":", "/", "/", "a", ".", "i", "o", "/", "x">>), JStr(<<"h", "t", "t", "p", "s", ":", "/", "/", "e", ".", "i", "o", "/">>)}
           /\ b.provider = JStr(<<"g", "o", "o", "g", "l", "e">>)
           /\ b.code_verifier = JUndef}

RouteRequests ==
    {[method |-> m, path |-> p, origin |-> o, referral |-> JNull, body |-> b] :
        m \in RouteMethods, p \in RoutePaths, o \in RouteOrigins, b \in RouteBodies}

InitRoute ==
    /\ regexCache = EmptyMap
    /\ env \in RouteEnvs
    /\ pc = "idle"
    /\ request = NoRequest
    /\ config = NoConfig
    /\ tokenResp = NoToken
    /\ outbound = <<>>
    /\ inbound = <<>>
    /\ response = NoResponse
    /\ log = <<>>
    /\ FnIdle

\* A request arrives and fetch() routes it.
Fetch ==
    /\ pc = "idle"
    /\ \E rq \in RouteRequests :
          /\ request' = rq
          /\ \E r \in {fetch(rq, env, regexCache)} : Leave(r)
    /\ UNCHANGED <<env, inbound>>
    /\ UNCHANGED fnVars

NextRoute == Fetch \/ ParseBody \/ ProviderReply \/ BackendReply

SpecRoute == InitRoute /\ [][NextRoute]_vars

\* The handler's positions, and the step that leaves an await: the promise
\* awaited at that position settles and the handler runs on.
Positions == {"idle", "json", "provider", "backend", "done", "threw"}

AwaitSettles(at) ==
    /\ pc = at
    /\ pc' \in Positions \ {at}

\* The same, with every await settling: request.json() settles, and each
\* outbound call eventually gets a reply or fails.  Under NextRoute the only
\* step that leaves "json" is ParseBody, the only one that leaves "provider"
\* is ProviderReply and the only one that leaves "backend" is BackendReply.
FairRoute ==
    /\ SpecRoute
    /\ WF_pc(AwaitSettles("json"))
    /\ WF_pc(AwaitSettles("provider"))
    /\ WF_pc(AwaitSettles("backend"))

\* C13: on every response the service produces, Access-Control-Allow-Origin
\* is present iff the request has an Origin header that isAllowedOrigin
\* accepts, and then it is exactly the request's Origin, never `*`; an OPTIONS
\* request gets status 204 whatever its path and origin.
C13_CorsHeaderOnlyForAllowedOrigin ==
    (pc = "done") =>
        /\ (response.allowOrigin # <<>>) <=>
              (/\ request.origin.t = "string"
               /\ isAllowedOrigin(request.origin.v, env.ALLOWED_REDIRECT_URIS,
                                  EmptyMap).ret)
        /\ response.allowOrigin # <<>> =>
              /\ response.allowOrigin = request.origin.v
              /\ response.allowOrigin # <<"*">>
        /\ request.method = "OPTIONS" => response.status = 204 /\ response.kind = "empty"

\* A preflight on an unknown path from an allowed origin, answered 204 with
\* the header set to that origin.
C13_Witness ==
    /\ pc = "done"
    /\ request.method = "OPTIONS" /\ request.path = <<"/", "o", "t", "h", "e", "r">>
    /\ request.origin = JStr(<<"h", "t", "t", "p", "s", ":", "/", "/", "a", ".", "i", "o">>)
    /\ response.status = 204
    /\ response.allowOrigin = <<"h", "t", "t", "p", "s", ":", "/", "/", "a", ".", "i", "o">>

\* C14: after the mount prefix is stripped, every request whose (method,
\* path) is none of OPTIONS with any path, GET /health, POST /oauth/token
\* receives 404 {error: "Not found"}, every other method on /health and on
\* /oauth/token included.
C14_OtherRoutesAreNotFound ==
    (/\ pc = "done"
     /\ request.method # "OPTIONS"
     /\ ~(request.method = "GET" /\ stripRoutePrefix(request.path) = <<"/", "h", "e", "a", "l", "t", "h">>)
     /\ ~(request.method = "POST" /\ stripRoutePrefix(request.path) = <<"/", "o", "a", "u", "t", "h", "/", "t", "o", "k", "e", "n">>))
    => RespondedError(404, Msg("Not found", <<>>))

\* The part of C14 the code does satisfy: the same with /health under any
\* method but OPTIONS taken as the health route.
OtherRoutesAreNotFoundOffHealth ==
    (/\ pc = "done"
     /\ request.method # "OPTIONS"
     /\ stripRoutePrefix(request.path) # <<"/", "h", "e", "a", "l", "t", "h">>
     /\ ~(request.method = "POST" /\ stripRoutePrefix(request.path) = <<"/", "o", "a", "u", "t", "h", "/", "t", "o", "k", "e", "n">>))
    => RespondedError(404, Msg("Not found", <<>>))

-----------------------------------------------------------------------------
(* Requests in flight together: each handler variable holds one value per  *)
(* request, the cache and the environment are shared.  A handler runs      *)
(* without interruption from one await to the next.                        *)

RequestIds == 1..NumRequests

ConcurrentBodies ==
    {[json |-> "null", code |-> JUndef, redirect_uri |-> JUndef, provider |-> JUndef,
      code_verifier |-> JUndef],
     [json |-> "object", code |-> JStr(<<"c", "o", "d", "e">>),
      redirect_uri |-> JStr(<<"h", "t", "t", "p", "s", ":", "/", "/", "e", ".", "i", "o", "/">>),
      provider |-> JStr(<<"g", "o", "o", "g", "l", "e">>), code_verifier |-> JUndef]}
    \cup
    {[json |-> "object", code |-> JStr(<<"c", "o", "d", "e">>), redirect_uri |-> u,
      provider |-> JStr(<<"g", "o", "o", "g", "l", "e">>), code_verifier |-> JUndef] :
        u \in {JStr(<<"h", "t", "t", "p", "s", ":", "/", "/", "a", ".", "i", "o", "/", "x">>), JStr(<<"h", "t", "t", "p", "s", ":", "/", "/", "x", ".", "b", ".", "i", "o", "/", "c", "b">>)}}

ConcurrentRequests ==
    {[origin |-> o, referral |-> JNull, body |-> b] :
        o \in {JStr(<<"h", "t", "t", "p", "s", ":", "/", "/", "a", ".", "i", "o">>)}, b \in ConcurrentBodies}

\* Two replies with tokens of their own, and a failing one.
ConcurrentProviderReplies ==
    {[net |-> "response", status |-> 200, json |-> "object", raw |-> <<"{", "}">>,
      access_token |-> t[1], id_token |-> t[2], user_info |-> JUndef,
      error |-> JUndef, error_description |-> JUndef] :
        t \in {<<AccessToken, IdToken>>,
               <<JStr(<<"a", "t", "2">>), JStr(<<"i", "d", "t", "2">>)>>}}
    \cup
    {r \in ProviderReplies : r.status = 401 /\ r.json = "object" /\ Truthy(r.error)}

ConcurrentBackendReplies ==
    {[net |-> "response", status |-> 200, json |-> "value", raw |-> <<"{", "}">>,
      value |-> v] : v \in {Profile, JObj(<<"p", "r", "o", "f", "i", "l", "e", "2">>)}}
    \cup
    {r \in BackendReplies : r.status = 500 /\ r.json = "malformed"}

InitConcurrent ==
    /\ regexCache = EmptyMap
    /\ env \in {e \in Envs : \A k \in CredentialKeys : Truthy(e[k])}
    /\ pc = [r \in RequestIds |-> "idle"]
    /\ request = [r \in RequestIds |-> NoRequest]
    /\ config = [r \in RequestIds |-> NoConfig]
    /\ tokenResp = [r \in RequestIds |-> NoToken]
    /\ outbound = [r \in RequestIds |-> <<>>]
    /\ inbound = [r \in RequestIds |-> <<>>]
    /\ response = [r \in RequestIds |-> NoResponse]
    /\ log = [r \in RequestIds |-> <<>>]
    /\ FnIdle

\* What a synchronous stretch res of request r's handler leaves in the state.
LeaveOf(r, res) ==
    /\ pc' = [pc EXCEPT ![r] = res.next]
    /\ response' = [response EXCEPT ![r] = res.response]
    /\ regexCache' = res.cache
    /\ outbound' = [outbound EXCEPT ![r] = @ \o res.calls]
    /\ log' = [log EXCEPT ![r] = @ \o res.log]
    /\ config' = [config EXCEPT ![r] = res.config]
    /\ tokenResp' = [tokenResp EXCEPT ![r] = res.token]

ReceiveOf(r) ==
    /\ pc[r] = "idle"
    /\ \E rq \in ConcurrentRequests : request' = [request EXCEPT ![r] = rq]
    /\ pc' = [pc EXCEPT ![r] = "json"]
    /\ UNCHANGED <<regexCache, env, config, tokenResp, outbound, inbound, response, log>>
    /\ UNCHANGED fnVars

ParseBodyOf(r) ==
    /\ pc[r] = "json"
    /\ \E res \in {handleBody(request[r], env, regexCache)} : LeaveOf(r, res)
    /\ UNCHANGED <<env, request, inbound>>
    /\ UNCHANGED fnVars

ProviderReplyOf(r) ==
    /\ pc[r] = "provider"
    /\ \E reply \in ConcurrentProviderReplies :
          \E x \in {exchangeCodeReturn(reply)} :
              \E res \in {afterExchange(request[r], env, regexCache, x)} :
                  /\ LeaveOf(r, res)
                  /\ inbound' = [inbound EXCEPT ![r] = Append(@, ProviderSeen(reply))]
    /\ UNCHANGED <<env, request>>
    /\ UNCHANGED fnVars

BackendReplyOf(r) ==
    /\ pc[r] = "backend"
    /\ \E reply \in ConcurrentBackendReplies :
          \E u \in {fetchUserInfoReturn(reply)} :
              \E res \in {afterUserInfo(request[r], env, regexCache, tokenResp[r], u)} :
                  /\ LeaveOf(r, res)
                  /\ inbound' = [inbound EXCEPT ![r] = Append(@, BackendSeen(reply))]
    /\ UNCHANGED <<env, request>>
    /\ UNCHANGED fnVars

NextConcurrent ==
    \E r \in RequestIds :
        ReceiveOf(r) \/ ParseBodyOf(r) \/ ProviderReplyOf(r) \/ BackendReplyOf(r)

SpecConcurrent == InitConcurrent /\ [][NextConcurrent]_vars

\* Where request rq stands, with what response and tokens, when it runs alone
\* from an empty cache and gets the replies inb.
AloneAfterExchange(rq, e, inb, x) ==
    IF x.next # "backend" \/ Len(inb) < 2 THEN x
    ELSE afterUserInfo(rq, e, x.cache, x.token, fetchUserInfoReturn(inb[2]))

AloneAfterBody(rq, e, inb, b) ==
    IF b.next # "provider" \/ inb = <<>> THEN b
    ELSE Bind(afterExchange(rq, e, b.cache, exchangeCodeReturn(inb[1])),
              LAMBDA x : AloneAfterExchange(rq, e, inb, x))

Alone(rq, e, inb) ==
    Bind(handleBody(rq, e, EmptyMap), LAMBDA b : AloneAfterBody(rq, e, inb, b))

\* C16: however the requests interleave at their awaits, each request stands
\* where it would stand, with the response and the tokens it would have, had
\* it run alone with the same request, configuration and replies; and the
\* shared cache holds for each pattern the matcher compiled from it, whoever
\* inserted it.
C16_InterleavingIsInvisible ==
    /\ \A r \in RequestIds :
          pc[r] \notin {"idle", "json"} =>
             \E a \in {Alone(request[r], env, inbound[r])} :
                 /\ pc[r] = a.next
                 /\ response[r] = a.response
                 /\ tokenResp[r] = a.token
    /\ \A p \in DOMAIN regexCache : regexCache[p] = NewRegExp(regexSource(p)).prog

\* Request 1 has been answered 200 with its own tokens while request 2, with
\* the same redirect_uri and other tokens, awaits the backend.
C16_Witness ==
    /\ pc[1] = "done" /\ response[1].status = 200
    /\ pc[2] = "backend"
    /\ request[1] = request[2]
    /\ tokenResp[2].access_token # response[1].token.access_token
    /\ response[1].token.access_token = inbound[1][1].access_token

\* C20: every request eventually receives exactly one response: each
\* execution of the handler reaches Responded or Failed, and the response it
\* produced is never followed by a second one.
C20_EveryRequestGetsOneResponse ==
    /\ (pc # "idle") ~> (Done /\ response # NoResponse)
    /\ [][response # NoResponse => response' = response]_vars

\* The part of C20 the code does satisfy: the same for every body but null.
OneResponseOffNullBody ==
    /\ (pc \in {"json", "provider", "backend"} /\ request.body.json # "null")
           ~> (Done /\ response # NoResponse)
    /\ [][response # NoResponse => response' = response]_vars

-----------------------------------------------------------------------------
(* Allowlists with blank entries *)

BlankEntries == {<<>>, <<" ">>, <<"\t", "\n">>}
RealPatterns == {<<"a">>, <<"h", "t", "t", "p", "s", ":", "/", "/", "a", ".", "i", "o", "/", "*">>}

\* The strings handed in as redirect_uri or Origin.
BlankUris == {<<>>, <<" ">>, <<"a">>, <<"h", "t", "t", "p", "s", ":", "/", "/", "a", ".", "i", "o">>, <<"h", "t", "t", "p", "s", ":", "/", "/", "a", ".", "i", "o", "/", "c", "b">>}

\* entries.join(',')
RECURSIVE JoinComma(_)
JoinComma(entries) ==
    IF entries = <<>> THEN <<>>
    ELSE IF Len(entries) = 1 THEN entries[1]
    ELSE entries[1] \o <<",">> \o JoinComma(Tail(entries))

\* The allowlists of one to MaxEntries entries, each blank or a pattern.
BlankAllowlists ==
    {JoinComma(es) : es \in UNION {[1..k -> BlankEntries \cup RealPatterns] :
                                       k \in 1..MaxEntries}}

InitBlank ==
    /\ regexCache = EmptyMap
    /\ HandlerIdle
    /\ fnPc = "call"
    /\ fnName \in {"validateRedirectUri", "isAllowedOrigin"}
    /\ fnUri \in BlankUris
    /\ fnArg \in BlankAllowlists
    /\ fnRet = FALSE

NextBlank == CallValidateRedirectUri \/ CallIsAllowedOrigin

SpecBlank == InitBlank /\ [][NextBlank]_vars

IsBlank(entry) == \A k \in 1..Len(entry) : entry[k] \in WhiteSpace

\* The allowlist with its blank entries taken out.
WithoutBlankEntries(csv) ==
    JoinComma(SelectSeq(splitComma(csv), LAMBDA e : ~IsBlank(e)))

\* The call against the allowlist csv, from an empty cache.
AllowedBy(csv) ==
    IF fnName = "validateRedirectUri"
    THEN validateRedirectUri(fnUri, csv, EmptyMap).ret
    ELSE isAllowedOrigin(fnUri, csv, EmptyMap).ret

\* C22: an allowlist that is empty or holds only blank entries and commas
\* allows nothing, for validateRedirectUri and for isAllowedOrigin; and a
\* blank entry among real patterns allows nothing: the answer is the one the
\* allowlist without its blank entries gives.
C22_BlankEntriesAllowNothing ==
    fnPc = "ret" =>
        /\ (\A e \in CsvEntries(fnArg) : IsBlank(e)) => fnRet = FALSE
        /\ fnRet = AllowedBy(WithoutBlankEntries(fnArg))

\* validateRedirectUri has answered false for the uri " " on the allowlist
\* " " of one blank entry.
C22_Witness ==
    /\ fnPc = "ret"
    /\ fnName = "validateRedirectUri"
    /\ fnUri = <<" ">>
    /\ fnArg = <<" ">>
    /\ fnRet = FALSE

====
